---- MODULE Spec2Model ----
(***************************************************************************)
(* Model of the taxi-fare data pipeline: taxipred.backend.data_cleaning    *)
(* (validity filter, pricing recovery, imputation, feature engineering,    *)
(* assembly), of TaxiData._engineer_features_from_input, the inference    *)
(* path of the same features, and of TaxiData.predict_price behind the     *)
(* POST /predict route of taxipred.backend.api.                            *)
(*                                                                         *)
(* Numbers.  A pandas float cell is modelled as an exact rational          *)
(* [n |-> numerator, d |-> denominator] in lowest terms with d > 0; the    *)
(* missing value NaN is [n |-> 0, d |-> 0].  Arithmetic on NaN gives NaN   *)
(* and every comparison with NaN is false, as in pandas/numpy.  A missing  *)
(* cell of a text column is the string NA.  Floating-point rounding is not *)
(* modelled: results are exact.                                            *)
(***************************************************************************)
EXTENDS Integers, Sequences, FiniteSets

\* ---------------------------------------------------------------- bounds
\* Largest integer a raw pricing cell takes in the recovery specification.
MaxVal == 2
\* Largest number of rows of a raw table in the pipeline specification.
MaxRows == 3
\* Largest number of rows of a table the validity filter is applied to.
MaxFilterRows == 2
\* Largest number of rows of a table clean_categorical_features is called on.
MaxImputeRows == 4
\* Largest weatherCode the Weather API answers with.
MaxWeatherCode == 99
\* Largest duration, in seconds, the Routes API answers with.
MaxSeconds == 23
\* Longest trip, in km, the distance lookup of the page answers with.
MaxTripKm == 12

\* ------------------------------------------------------------ arithmetic
Abs(x) == IF x < 0 THEN -x ELSE x

RECURSIVE Gcd(_, _)
Gcd(a, b) == IF b = 0 THEN a ELSE Gcd(b, a % b)

NaN == [n |-> 0, d |-> 0]

\* The value p/q in lowest terms with a denominator >= 0.  q = 0 gives the
\* IEEE results of a division by zero: +inf [n |-> 1, d |-> 0], -inf
\* [n |-> -1, d |-> 0], and NaN for 0/0.
Rat(p, q) ==
    IF p = 0 /\ q = 0 THEN NaN
    ELSE LET g == Gcd(Abs(p), Abs(q))
             s == IF q < 0 THEN -1 ELSE 1
         IN  [n |-> (s * p) \div g, d |-> (s * q) \div g]

Num(i) == [n |-> i, d |-> 1]

\* pd.isna / pd.notna on a numeric cell.
isna(x) == x.d = 0 /\ x.n = 0
notna(x) == ~isna(x)

Add(x, y) ==
    IF isna(x) \/ isna(y) THEN NaN
    ELSE IF x.d = 0 /\ y.d = 0 THEN (IF x.n = y.n THEN x ELSE NaN)
    ELSE Rat(x.n * y.d + y.n * x.d, x.d * y.d)
Neg(x) == [n |-> -x.n, d |-> x.d]
Sub(x, y) == Add(x, Neg(y))
Mul(x, y) == IF isna(x) \/ isna(y) THEN NaN ELSE Rat(x.n * y.n, x.d * y.d)
\* numpy float division: x / 0 is +-inf (NaN for 0 / 0), never an exception.
Div(x, y) ==
    IF isna(x) \/ isna(y) THEN NaN
    ELSE IF y.n < 0 THEN Rat(-(x.n * y.d), x.d * (-y.n))
    ELSE Rat(x.n * y.d, x.d * y.n)

\* x > 0, x != 0 and x < y on cells: a comparison with NaN is false,
\* except !=, which is true.
\* Mutant of GtZero: >= in place of >.
GeZero(x) == x.n >= 0 /\ notna(x)
GtZero(x) == x.n > 0
\* Mutant of NeZero: the division guard dropped.
NoZeroGuard(x) == TRUE
NeZero(x) == x.n # 0 \/ isna(x)
Less(x, y) ==
    /\ notna(x) /\ notna(y)
    /\ IF x.d = 0 \/ y.d = 0 THEN x.n < y.n /\ (x.d = 0 => x.n < 0) /\ (y.d = 0 => y.n > 0)
       ELSE x.n * y.d < y.n * x.d

\* Mutant of Max0: the value stored without the clamp.
Unclamped(x) == x

\* Python's max(0, x): x when x > 0, else 0 (also for NaN).
Max0(x) == IF GtZero(x) THEN x ELSE Num(0)

\* ------------------------------------------------------------------ columns
PRICING_COLS == <<"trip_price", "base_fare", "per_km_rate", "per_minute_rate",
                  "trip_distance_km", "trip_duration_minutes">>

PricingSet == {PRICING_COLS[i] : i \in 1..Len(PRICING_COLS)}

\* The missing value of a text column.
NA == "NaN"

Range(seq) == {seq[i] : i \in 1..Len(seq)}

\* df.drop(columns=names) on the header and on a row.
DropFromHeader(header, names) == SelectSeq(header, LAMBDA c : c \notin names)
DropFromRow(row, names) == [c \in (DOMAIN row) \ names |-> row[c]]

\* df[col] = value on the header (a new column is appended) and on a row.
AddToHeader(header, col) == IF col \in Range(header) THEN header ELSE Append(header, col)
SetCell(row, col, value) ==
    [c \in (DOMAIN row) \cup {col} |-> IF c = col THEN value ELSE row[c]]

\* ------------------------------------------------------- pricing recovery
\* all(pd.notna(row[col]) for col in <the five other pricing columns>)
OthersPresent(row, col) == \A c \in PricingSet \ {col} : notna(row[c])

\* Mutant of calculated_price: the time charge left out.
price_without_time_charge(row) ==
    Add(row["base_fare"], Mul(row["trip_distance_km"], row["per_km_rate"]))

calculated_price(row) ==
    Add(Add(row["base_fare"], Mul(row["trip_distance_km"], row["per_km_rate"])),
        Mul(row["trip_duration_minutes"], row["per_minute_rate"]))

\* Mutant of calculated_distance: base_fare not subtracted.
distance_without_base_fare(row) ==
    Div(Sub(row["trip_price"], Mul(row["trip_duration_minutes"], row["per_minute_rate"])),
        row["per_km_rate"])

calculated_distance(row) ==
    Div(Sub(Sub(row["trip_price"], row["base_fare"]),
            Mul(row["trip_duration_minutes"], row["per_minute_rate"])),
        row["per_km_rate"])

calculated_duration(row) ==
    Div(Sub(Sub(row["trip_price"], row["base_fare"]),
            Mul(row["trip_distance_km"], row["per_km_rate"])),
        row["per_minute_rate"])

calculated_base_fare(row) ==
    Sub(Sub(row["trip_price"], Mul(row["trip_distance_km"], row["per_km_rate"])),
        Mul(row["trip_duration_minutes"], row["per_minute_rate"]))

calculated_per_km(row) ==
    Div(Sub(Sub(row["trip_price"], row["base_fare"]),
            Mul(row["trip_duration_minutes"], row["per_minute_rate"])),
        row["trip_distance_km"])

calculated_per_minute(row) ==
    Div(Sub(Sub(row["trip_price"], row["base_fare"]),
            Mul(row["trip_distance_km"], row["per_km_rate"])),
        row["trip_duration_minutes"])

\* The if/elif chain of the loop body: the cells of `row` (the snapshot that
\* iterrows yields) decide the branch, and the branch writes at most one cell.
RecoverOne(row) ==
    IF isna(row["trip_price"]) /\ OthersPresent(row, "trip_price")
    THEN SetCell(row, "trip_price", calculated_price(row))
    ELSE IF isna(row["trip_price"])
    THEN row
    ELSE IF isna(row["trip_distance_km"]) /\ OthersPresent(row, "trip_distance_km")
    THEN IF NeZero(row["per_km_rate"]) /\ GtZero(calculated_distance(row))
         THEN SetCell(row, "trip_distance_km", calculated_distance(row))
         ELSE row
    ELSE IF isna(row["trip_duration_minutes"]) /\ OthersPresent(row, "trip_duration_minutes")
    THEN IF NeZero(row["per_minute_rate"]) /\ GtZero(calculated_duration(row))
         THEN SetCell(row, "trip_duration_minutes", calculated_duration(row))
         ELSE row
    ELSE IF isna(row["base_fare"]) /\ OthersPresent(row, "base_fare")
    THEN SetCell(row, "base_fare", Max0(calculated_base_fare(row)))
    ELSE IF isna(row["per_km_rate"]) /\ OthersPresent(row, "per_km_rate")
    THEN IF GtZero(row["trip_distance_km"])
         THEN SetCell(row, "per_km_rate", Max0(calculated_per_km(row)))
         ELSE row
    ELSE IF isna(row["per_minute_rate"]) /\ OthersPresent(row, "per_minute_rate")
    THEN IF GtZero(row["trip_duration_minutes"])
         THEN SetCell(row, "per_minute_rate", Max0(calculated_per_minute(row)))
         ELSE row
    ELSE row

\* Mutant of FillRow: multi-field recovery, a missing base fare or rate is
\* taken as 0 before the chain runs.
FillRowMulti(row) ==
    RecoverOne([c \in DOMAIN row |->
                  IF c \in {"base_fare", "per_km_rate", "per_minute_rate"} /\ isna(row[c])
                  THEN Num(0) ELSE row[c]])

\* Mutant of FillRow: trip_price recomputed whenever its five operands are
\* present, missing or not.
FillRowRecomputePrice(row) ==
    IF OthersPresent(row, "trip_price")
    THEN SetCell(row, "trip_price", calculated_price(row))
    ELSE RecoverOne(row)

\* One iteration of `for idx, row in df.iterrows()`.
FillRow(row) == RecoverOne(row)

\* fill_missing_pricing_components: the loop over all rows of a copy of df.
fill_missing_pricing_components(table) ==
    [i \in 1..Len(table) |-> FillRow(table[i])]

\* ------------------------------------------------------------ imputation
\* The labels a text column holds in the model, in the order pandas sorts
\* them (the order Series.mode() lists equally frequent values in).  "Fog"
\* and "Jam" stand for labels the lookup tables do not know.
SortedLabels(col) ==
    CASE col = "time_of_day" -> <<"Afternoon", "Evening", "Morning", "Night">>
      [] col = "day_of_week" -> <<"Weekday", "Weekend">>
      [] col = "traffic_conditions" -> <<"High", "Jam", "Low", "Medium">>
      [] col = "weather" -> <<"Clear", "Fog", "Rain", "Snow">>

categorical_defaults ==
    [time_of_day |-> "Afternoon", day_of_week |-> "Weekday",
     traffic_conditions |-> "Medium", weather |-> "Clear"]

CountOf(table, col, v) == Cardinality({i \in 1..Len(table) : table[i][col] = v})

\* Mutant of ModeOrDefault: the fixed default whatever the column holds.
DefaultOnly(table, col) == categorical_defaults[col]

\* df[col].mode()[0] if not df[col].mode().empty else default
ModeOrDefault(table, col) ==
    LET labels == SortedLabels(col)
        best(k) == /\ CountOf(table, col, labels[k]) > 0
                   /\ \A j \in 1..Len(labels) :
                        CountOf(table, col, labels[j]) <= CountOf(table, col, labels[k])
        winners == {k \in 1..Len(labels) : best(k)}
    IN  IF winners = {} THEN categorical_defaults[col]
        ELSE labels[CHOOSE k \in winners : \A j \in winners : k <= j]

\* df[col].median(): the middle of the present values (the mean of the two
\* middle ones for an even count), NaN when there is none.
Median(table, col) ==
    LET present == {i \in 1..Len(table) : notna(table[i][col])}
        k == Cardinality(present)
        below(v) == Cardinality({i \in present : Less(table[i][col], v)})
        upto(v) == Cardinality({i \in present : ~Less(v, table[i][col])})
        kth(j) == LET i == CHOOSE i \in present :
                               below(table[i][col]) < j /\ j <= upto(table[i][col])
                  IN  table[i][col]
    IN  IF k = 0 THEN NaN
        ELSE IF k % 2 = 1 THEN kth((k + 1) \div 2)
        ELSE Div(Add(kth(k \div 2), kth(k \div 2 + 1)), Num(2))

\* Series.fillna(value) on a text cell and on a numeric cell.
FillnaText(cell, value) == IF cell = NA THEN value ELSE cell
FillnaNum(cell, value) == IF isna(cell) THEN value ELSE cell

CATEGORICAL_COLS == <<"time_of_day", "day_of_week", "traffic_conditions", "weather">>

\* Mutant of clean_categorical_features: the rows the final cleanup removes
\* are removed before the statistics are computed.
impute_after_final_drop(table) ==
    LET kept == SelectSeq(table, LAMBDA row :
                    notna(row["trip_price"]) /\ notna(row["trip_distance_km"]))
        fill == [c \in Range(CATEGORICAL_COLS) |-> ModeOrDefault(kept, c)]
        median == Median(kept, "passenger_count")
    IN  [i \in 1..Len(kept) |->
            [c \in DOMAIN kept[i] |->
                IF c \in Range(CATEGORICAL_COLS) THEN FillnaText(kept[i][c], fill[c])
                ELSE IF c = "passenger_count" THEN FillnaNum(kept[i][c], median)
                ELSE kept[i][c]]]

clean_categorical_features(table) ==
    LET fill == [c \in Range(CATEGORICAL_COLS) |-> ModeOrDefault(table, c)]
        median == Median(table, "passenger_count")
    IN  [i \in 1..Len(table) |->
            [c \in DOMAIN table[i] |->
                IF c \in Range(CATEGORICAL_COLS) THEN FillnaText(table[i][c], fill[c])
                ELSE IF c = "passenger_count" THEN FillnaNum(table[i][c], median)
                ELSE table[i][c]]]

\* ---------------------------------------------------- feature engineering
\* dict lookups of both paths; Series.map gives NaN for a key the dict lacks.
\* Mutant of WEATHER_IMPACT: the factors of Rain and Snow swapped.
WEATHER_IMPACT_swapped == [Clear |-> Num(1), Rain |-> Rat(13, 10), Snow |-> Rat(115, 100)]
WEATHER_IMPACT == [Clear |-> Num(1), Rain |-> Rat(115, 100), Snow |-> Rat(13, 10)]
TRAFFIC_MULTIPLIER == [Low |-> Num(1), Medium |-> Rat(11, 10), High |-> Rat(125, 100)]

MapOrNaN(dict, key) == IF key \in DOMAIN dict THEN dict[key] ELSE NaN

\* (series == label).astype(int) and the bitwise | of two 0/1 integers.
AsInt(b) == IF b THEN 1 ELSE 0
\* Mutant of BitOr: & in place of |.
BitAnd(a, b) == IF a = 1 /\ b = 1 THEN 1 ELSE 0
BitOr(a, b) == IF a = 1 \/ b = 1 THEN 1 ELSE 0

ENGINEERED_COLS == <<"weather_impact", "traffic_multiplier", "is_morning_rush",
                     "is_evening_rush", "is_peak_hours", "is_weekend",
                     "high_impact_trip", "condition_score", "distance_x_conditions">>

\* engineer_features on one row: the column assignments in source order, each
\* reading the row the earlier assignments produced.
EngineerRow(row) ==
    LET r1 == SetCell(row, "weather_impact", MapOrNaN(WEATHER_IMPACT, row["weather"]))
        r2 == SetCell(r1, "traffic_multiplier",
                      MapOrNaN(TRAFFIC_MULTIPLIER, r1["traffic_conditions"]))
        r3 == SetCell(r2, "is_morning_rush", AsInt(r2["time_of_day"] = "Morning"))
        r4 == SetCell(r3, "is_evening_rush", AsInt(r3["time_of_day"] = "Evening"))
        r5 == SetCell(r4, "is_peak_hours", BitOr(r4["is_morning_rush"], r4["is_evening_rush"]))
        r6 == SetCell(r5, "is_weekend", AsInt(r5["day_of_week"] = "Weekend"))
        r7 == SetCell(r6, "high_impact_trip",
                      AsInt(r6["weather"] = "Snow" \/ r6["traffic_conditions"] = "High"))
        r8 == SetCell(r7, "condition_score", Mul(r7["weather_impact"], r7["traffic_multiplier"]))
    IN  SetCell(r8, "distance_x_conditions", Mul(r8["trip_distance_km"], r8["condition_score"]))

engineer_features(table) == [i \in 1..Len(table) |-> EngineerRow(table[i])]

RECURSIVE AddAllToHeader(_, _)
AddAllToHeader(header, cols) ==
    IF cols = <<>> THEN header
    ELSE AddAllToHeader(AddToHeader(header, Head(cols)), Tail(cols))

\* Mutant of TimeOfDay: the evening bin ends at 22.
TimeOfDayShortEvening(hour) ==
    IF 6 <= hour /\ hour < 12 THEN "Morning"
    ELSE IF 12 <= hour /\ hour < 18 THEN "Afternoon"
    ELSE IF 18 <= hour /\ hour < 22 THEN "Evening"
    ELSE "Night"

\* Mutant of TimeOfDay: the morning bin closed at 12.
TimeOfDayNoonIsMorning(hour) ==
    IF 6 <= hour /\ hour <= 12 THEN "Morning"
    ELSE IF 12 < hour /\ hour < 18 THEN "Afternoon"
    ELSE IF 18 <= hour /\ hour < 24 THEN "Evening"
    ELSE "Night"

\* The hour-of-day binning of the inference path.
TimeOfDay(hour) ==
    IF 6 <= hour /\ hour < 12 THEN "Morning"
    ELSE IF 12 <= hour /\ hour < 18 THEN "Afternoon"
    ELSE IF 18 <= hour /\ hour < 24 THEN "Evening"
    ELSE "Night"

\* TaxiData._engineer_features_from_input; pickup_datetime is given by its
\* hour and weekday().  weather and traffic_conditions are keys of the dicts.
engineer_features_from_input(trip_distance_km, passenger_count, hour, weekday, weather, traffic_conditions) ==
    LET time_of_day == TimeOfDay(hour)
        is_morning_rush == IF time_of_day = "Morning" THEN 1 ELSE 0
        is_evening_rush == IF time_of_day = "Evening" THEN 1 ELSE 0
        is_peak_hours == IF is_morning_rush # 0 \/ is_evening_rush # 0 THEN 1 ELSE 0
        is_weekend == IF weekday > 4 THEN 1 ELSE 0
        weather_impact == WEATHER_IMPACT[weather]
        traffic_multiplier == TRAFFIC_MULTIPLIER[traffic_conditions]
        condition_score == Mul(weather_impact, traffic_multiplier)
        distance_x_conditions == Mul(trip_distance_km, condition_score)
        high_impact_trip == IF weather = "Snow" \/ traffic_conditions = "High" THEN 1 ELSE 0
    IN  [trip_distance_km |-> trip_distance_km,
         passenger_count |-> passenger_count,
         weather_impact |-> weather_impact,
         traffic_multiplier |-> traffic_multiplier,
         is_morning_rush |-> is_morning_rush,
         is_evening_rush |-> is_evening_rush,
         is_peak_hours |-> is_peak_hours,
         is_weekend |-> is_weekend,
         high_impact_trip |-> high_impact_trip,
         condition_score |-> condition_score,
         distance_x_conditions |-> distance_x_conditions]

\* -------------------------------------------------------------- assembly
\* Mutant of ValidCore: the duration test left out.
ValidCoreNoDuration(row) ==
    /\ isna(row["trip_price"]) \/ GtZero(row["trip_price"])
    /\ isna(row["trip_distance_km"]) \/ GtZero(row["trip_distance_km"])

\* Mutant of ValidCore: the three comparisons without the isna() alternative.
ValidCoreNoNulls(row) ==
    /\ GtZero(row["trip_price"])
    /\ GtZero(row["trip_distance_km"])
    /\ GtZero(row["trip_duration_minutes"])

\* The row mask of STEP 1 of clean_dataset.
ValidCore(row) ==
    /\ isna(row["trip_price"]) \/ GtZero(row["trip_price"])
    /\ isna(row["trip_distance_km"]) \/ GtZero(row["trip_distance_km"])
    /\ isna(row["trip_duration_minutes"]) \/ GtZero(row["trip_duration_minutes"])

\* STEP 1 of clean_dataset: df[mask].copy().
validity_filter(table) == SelectSeq(table, ValidCore)

\* Mutant of columns_to_drop: trip_duration_minutes forgotten.
columns_to_drop_short == {"base_fare", "per_km_rate", "per_minute_rate"}
columns_to_drop == {"base_fare", "per_km_rate", "per_minute_rate", "trip_duration_minutes"}
\* Mutant of critical_columns: only the target is looked at.
critical_columns_price_only == {"trip_price"}
critical_columns == {"trip_distance_km", "trip_price"}
\* Mutant of categorical_to_drop: the weather column stays in the table.
categorical_to_drop_short == {"time_of_day", "day_of_week", "traffic_conditions"}
categorical_to_drop == {"time_of_day", "day_of_week", "traffic_conditions", "weather"}

\* df.dropna(subset=cols): the rows with no missing cell among cols.
DropnaSubset(table, cols) == SelectSeq(table, LAMBDA row : \A c \in cols : notna(row[c]))

\* --------------------------------------------------------------- serving
\* A field the JSON body of a request does not carry.
Absent == "absent"

\* InputModel: the Field(gt=0) and Field(gt=0, lt=5) constraints.
InputModelValid(body) ==
    /\ GtZero(body.trip_distance_km)
    /\ body.passenger_count > 0
    /\ body.passenger_count < 5

\* InputModel: the Field(default=...) of weather and traffic_conditions.
InputModel(body) ==
    [body EXCEPT !.weather = IF @ = Absent THEN "Clear" ELSE @,
                 !.traffic_conditions = IF @ = Absent THEN "Medium" ELSE @]

\* What a call of predict_price ends with: the exception it raised ("None"
\* for a normal return), the one-row frame handed to model.predict, and
\* the labels echoed in trip_details.  The price the model predicts is not
\* modelled.
Outcome(raised, cols, values, weather, traffic) ==
    [raised |-> raised, columns |-> cols, values |-> values,
     weather_used |-> weather, traffic_used |-> traffic]

Raise(exception) == Outcome(exception, <<>>, <<>>, "", "")

\* Mutant of predict_price: the distance is checked before the model.
predict_price_distance_first(self, trip_distance_km, passenger_count, hour, weekday, weather, traffic_conditions) ==
    IF ~GtZero(trip_distance_km) THEN Raise("ValueError")
    ELSE IF ~self.model THEN Raise("RuntimeError")
    ELSE IF weather \notin DOMAIN WEATHER_IMPACT THEN Raise("KeyError")
    ELSE IF traffic_conditions \notin DOMAIN TRAFFIC_MULTIPLIER THEN Raise("KeyError")
    ELSE LET features == engineer_features_from_input(trip_distance_km, passenger_count,
                             hour, weekday, weather, traffic_conditions)
             feature_columns == SelectSeq(self.columns, LAMBDA col : col # "trip_price")
         IN  IF self.predict_raises # "None" THEN Raise(self.predict_raises)
             ELSE Outcome("None", feature_columns,
                          [i \in 1..Len(feature_columns) |-> features[feature_columns[i]]],
                          weather, traffic_conditions)

\* TaxiData.predict_price on the service self: self.columns is the header
\* of its cleaned table, self.model whether a model is loaded, and
\* self.predict_raises the exception model.predict raises ("None": it
\* returns a price).
predict_price(self, trip_distance_km, passenger_count, hour, weekday, weather, traffic_conditions) ==
    IF ~self.model THEN Raise("RuntimeError")
    ELSE IF ~GtZero(trip_distance_km) THEN Raise("ValueError")
    ELSE IF weather \notin DOMAIN WEATHER_IMPACT THEN Raise("KeyError")
    ELSE IF traffic_conditions \notin DOMAIN TRAFFIC_MULTIPLIER THEN Raise("KeyError")
    ELSE LET features == engineer_features_from_input(trip_distance_km, passenger_count,
                             hour, weekday, weather, traffic_conditions)
             feature_columns == SelectSeq(self.columns, LAMBDA col : col # "trip_price")
         IN  IF \E i \in 1..Len(feature_columns) : feature_columns[i] \notin DOMAIN features
             THEN Raise("KeyError")
             ELSE IF self.predict_raises # "None" THEN Raise(self.predict_raises)
             ELSE Outcome("None", feature_columns,
                          [i \in 1..Len(feature_columns) |-> features[feature_columns[i]]],
                          weather, traffic_conditions)

\* A direct call of predict_price with the arguments of args; an absent
\* weather or traffic_conditions takes the default of the signature.
call_predict_price(self, args) ==
    predict_price(self, args.trip_distance_km, args.passenger_count, args.hour, args.weekday,
        IF args.weather = Absent THEN "Clear" ELSE args.weather,
        IF args.traffic_conditions = Absent THEN "Medium" ELSE args.traffic_conditions)

\* The reply of POST /predict: the HTTP status and the outcome of the call.
Reply(http, outcome) == [http |-> http, outcome |-> outcome]

\* predict_fare behind FastAPI's validation of the body against InputModel
\* (a body that fails it is answered 422 before the handler runs).
predict_fare(taxi, body) ==
    IF ~InputModelValid(body) THEN Reply(422, Raise("RequestValidationError"))
    ELSE LET input_data == InputModel(body)
             result == predict_price(taxi, input_data.trip_distance_km,
                           input_data.passenger_count, input_data.hour, input_data.weekday,
                           input_data.weather, input_data.traffic_conditions)
         IN  CASE result.raised = "None" -> Reply(200, result)
               [] result.raised = "ValueError" -> Reply(400, result)
               [] result.raised = "RuntimeError" -> Reply(500, result)
               [] OTHER -> Reply(500, result)

\* ------------------------------------------------------- external lookups
\* get_weather: the weatherCode lists of the three branches.
CLEAR_CODES == {0, 1, 2}
RAIN_CODES == {45, 48, 51, 53, 55, 56, 57, 61, 63, 65, 66, 67, 80, 81, 82}
SNOW_CODES == {71, 73, 75, 77, 85, 86}

\* get_weather on what the Weather API answered: the request or the parse
\* raises, the answer carries no weatherCode (.get(..., 0)), or it carries one.
get_weather(reply) ==
    IF reply.kind = "raises" THEN "Clear"
    ELSE LET weather_code == IF reply.kind = "no_code" THEN 0 ELSE reply.weatherCode
         IN  IF weather_code \in CLEAR_CODES THEN "Clear"
             ELSE IF weather_code \in RAIN_CODES THEN "Rain"
             ELSE IF weather_code \in SNOW_CODES THEN "Snow"
             ELSE "Clear"

\* Python's None as a returned value.
None == [none |-> TRUE]

\* round(distance_meters / 1000, 2) as an exact rational, for a distance that
\* is not halfway between two hundredths of a kilometre.
round_km(distance_meters) == Rat((distance_meters + 5) \div 10, 100)

is_rush_hour(hour, weekday) ==
    ((6 <= hour /\ hour <= 9) \/ (16 <= hour /\ hour <= 19)) /\ weekday < 5

\* traffic_ratio < 1.05 and traffic_ratio < 1.15 on whole seconds:
\* duration / static < 21/20 and duration / static < 23/20, static > 0.
traffic_by_ratio(duration_seconds, static_duration_seconds) ==
    IF 20 * duration_seconds < 21 * static_duration_seconds THEN "Low"
    ELSE IF 20 * duration_seconds < 23 * static_duration_seconds THEN "Medium"
    ELSE "High"

\* The override without its effect: the API's category is kept.
no_rush_hour_override(traffic_conditions, rush_hour) == traffic_conditions

\* "Override if API suggests low traffic during known rush hours".
rush_hour_override(traffic_conditions, rush_hour) ==
    IF rush_hour /\ traffic_conditions = "Low" THEN "Medium" ELSE traffic_conditions

\* get_distance_and_traffic on an origin, a destination, a pickup time and
\* what the Routes API answered; every exception inside the try gives None.
get_distance_and_traffic(origin, destination, pickup_datetime, reply) ==
    IF origin = "" \/ destination = "" THEN None
    ELSE IF reply.kind = "raises" THEN None
    ELSE IF reply.kind = "status_not_200" THEN None
    ELSE IF reply.kind = "no_routes" THEN None
    ELSE IF reply.kind = "bad_duration" THEN None
    ELSE LET distance_km == round_km(reply.distanceMeters)
             duration_seconds == reply.duration
             static_duration_seconds == reply.staticDuration
             traffic_conditions ==
                 IF static_duration_seconds > 0
                 THEN rush_hour_override(
                          traffic_by_ratio(duration_seconds, static_duration_seconds),
                          is_rush_hour(pickup_datetime.hour, pickup_datetime.weekday))
                 ELSE "Medium"
         IN  [distance_km |-> distance_km, traffic_conditions |-> traffic_conditions]

\* -------------------------------------------------- price-prediction page
\* st.session_state is a function from the keys that are set to their values.
Has(session_state, key) == key \in DOMAIN session_state
DelKey(session_state, key) == [k \in (DOMAIN session_state) \ {key} |-> session_state[k]]

\* The three `if key not in st.session_state` of main and of
\* initialize_prediction_state.
initialize_prediction_state(session_state) ==
    LET s1 == IF Has(session_state, "prediction_complete") THEN session_state
              ELSE SetCell(session_state, "prediction_complete", FALSE)
        s2 == IF Has(s1, "trip_data") THEN s1 ELSE SetCell(s1, "trip_data", None)
    IN  IF Has(s2, "processing") THEN s2 ELSE SetCell(s2, "processing", FALSE)

\* Mutant of reset_prediction_state: the flags are cleared, the stored trip
\* and form are left behind.
reset_flags_only(session_state) ==
    SetCell(SetCell(session_state, "prediction_complete", FALSE), "processing", FALSE)

\* reset_prediction_state, the body of the "New Trip Prediction" button.
reset_prediction_state(session_state) ==
    LET s1 == SetCell(session_state, "prediction_complete", FALSE)
        s2 == SetCell(s1, "processing", FALSE)
        s3 == SetCell(s2, "trip_data", None)
    IN  IF Has(s3, "form_data") THEN DelKey(s3, "form_data") ELSE s3

\* price_prediction_form: what it leaves in the session and what it returns
\* (the form data, or None) for the state of the button and of the inputs.
price_prediction_form(session_state, clicked, pickup_address, destination_address, passenger_count) ==
    IF clicked /\ pickup_address # "" /\ destination_address # ""
    THEN LET form_data == [pickup |-> pickup_address, destination |-> destination_address,
                           passenger_count |-> passenger_count]
         IN  [session_state |-> SetCell(session_state, "form_data", form_data),
              returned |-> form_data]
    ELSE [session_state |-> session_state, returned |-> None]

\* How a run of the script in the processing state ended: by st.rerun() after
\* a success or a handled failure, or by an exception nothing caught.
Ended(session_state, outcome, raised) ==
    [session_state |-> session_state, outcome |-> outcome, raised |-> raised]

\* The parameters without default of the two helpers in utils/api_helpers.py.
CALL_PREDICTION_API_PARAMS ==
    {"distance", "passenger_count", "pickup_date", "pickup_time", "weather",
     "traffic_conditions"}
FORMAT_TRIP_DATA_PARAMS ==
    {"api_response", "pickup_address", "destination_address", "distance",
     "passenger_count", "weather", "traffic_conditions"}

\* A call that binds `given`: Python raises TypeError when a parameter
\* without default is left unbound.
BindsAll(params, given) == params \subseteq given

\* call_prediction_api -> post_api_data -> requests.post: the Response, or the
\* exception requests raised (nothing on the way catches it).
call_prediction_api(given, reply) ==
    IF ~BindsAll(CALL_PREDICTION_API_PARAMS, given) THEN [raised |-> "TypeError"]
    ELSE IF reply.kind = "raises" THEN [raised |-> "ConnectionError"]
    ELSE [raised |-> "None", response |-> reply]

\* handle_api_response: None for a status other than 200 and for a body
\* that is not JSON, the parsed JSON otherwise.
handle_api_response(response) ==
    IF response.kind = "not_200" THEN None
    ELSE IF response.kind = "unparsable" THEN None
    ELSE response

\* `if not processed_data` / `if processed_data`: None and empty JSON are falsy.
Falsy(data) == data = None \/ data.kind = "empty_json"

\* format_trip_data_for_display: TypeError for an unbound parameter, KeyError
\* for a JSON without estimated_price or trip_details.
format_trip_data_for_display(given, api_response, form_data, distance, weather, traffic_conditions) ==
    IF ~BindsAll(FORMAT_TRIP_DATA_PARAMS, given) THEN [raised |-> "TypeError"]
    ELSE IF api_response.kind # "prediction" THEN [raised |-> "KeyError"]
    ELSE [raised |-> "None",
          formatted_data |->
              [pickup |-> form_data.pickup, destination |-> form_data.destination,
               distance |-> distance, passenger_count |-> form_data.passenger_count,
               estimated_price |-> api_response.estimated_price,
               weather |-> weather, traffic_conditions |-> traffic_conditions]]

\* The three assignments that end a successful run.
store_result(session_state, formatted_data) ==
    SetCell(SetCell(SetCell(session_state, "trip_data", formatted_data),
                    "prediction_complete", TRUE),
            "processing", FALSE)

\* handle_processing_error, and the two else branches of
\* handle_prediction_process: processing = False, then st.rerun().
handle_processing_error(session_state) == SetCell(session_state, "processing", FALSE)

\* handle_prediction_process of pages/1_Price_Prediction.py on the outcome
\* `lookup` of get_distance_via_api and the answer `reply` of POST /predict.
\* It calls call_prediction_api with four and format_trip_data_for_display
\* with five positional arguments, and has no try/except.
handle_prediction_process(session_state, lookup, reply) ==
    IF ~Has(session_state, "form_data") THEN Ended(session_state, "raised", "TypeError")
    ELSE IF lookup.kind = "raises" THEN Ended(session_state, "raised", "ConnectionError")
    ELSE IF lookup.kind # "found" THEN Ended(handle_processing_error(session_state), "failed", "None")
    ELSE LET form_data == session_state["form_data"]
             distance == lookup.distance_km
             called == call_prediction_api(
                           {"distance", "passenger_count", "pickup_date", "pickup_time"}, reply)
         IN  IF called.raised # "None" THEN Ended(session_state, "raised", called.raised)
             ELSE LET processed_data == handle_api_response(called.response)
                      formatted ==
                          format_trip_data_for_display(
                              {"api_response", "pickup_address", "destination_address",
                               "distance", "passenger_count"},
                              processed_data, form_data, distance, "Clear", "Medium")
                  IN  IF Falsy(processed_data)
                      THEN Ended(handle_processing_error(session_state), "failed", "None")
                      ELSE IF formatted.raised # "None"
                      THEN Ended(session_state, "raised", formatted.raised)
                      ELSE Ended(store_result(session_state, formatted.formatted_data),
                                 "success", "None")

\* render_prediction_workflow of ui_components.py on the answer `lookup` of
\* POST /distance (through call_distance_api) and `reply` of POST /predict.
\* It binds every parameter of the two helpers, and has no try/except.
render_prediction_workflow(session_state, lookup, reply) ==
    IF ~Has(session_state, "form_data") THEN Ended(session_state, "raised", "TypeError")
    ELSE IF lookup.kind = "raises" THEN Ended(session_state, "raised", "ConnectionError")
    ELSE IF lookup.kind # "found" THEN Ended(handle_processing_error(session_state), "failed", "None")
    ELSE LET form_data == session_state["form_data"]
             distance == lookup.distance_km
             traffic_conditions == lookup.traffic_conditions
             called == call_prediction_api(CALL_PREDICTION_API_PARAMS, reply)
         IN  IF called.raised # "None" THEN Ended(session_state, "raised", called.raised)
             ELSE LET processed_data == handle_api_response(called.response)
                      formatted ==
                          format_trip_data_for_display(FORMAT_TRIP_DATA_PARAMS,
                              processed_data, form_data, distance, "Clear", traffic_conditions)
                  IN  IF Falsy(processed_data)
                      THEN Ended(handle_processing_error(session_state), "failed", "None")
                      ELSE IF formatted.raised # "None"
                      THEN Ended(session_state, "raised", formatted.raised)
                      ELSE Ended(store_result(session_state, formatted.formatted_data),
                                 "success", "None")

\* ------------------------------------------------------------------ state
VARIABLES
    input_exists, \* whether there is a file at input_path
    input_file,   \* the rows of the raw CSV at input_path
    pc,           \* the step of clean_dataset that was last completed
    df,           \* clean_dataset's df: the table as read
    cur,          \* the table the last step produced (df_valid_core ... df_final)
    columns,      \* the header of cur, in order
    touched,      \* the columns the last step indexed, created or dropped
    output,       \* the file at output_path
    fill_in,      \* argument of a direct call of fill_missing_pricing_components
    fill_out,     \* its result
    req,          \* one trip: the input of the two feature-engineering paths
    bulk_out,     \* engineer_features on the one-row table carrying req
    infer_out,    \* _engineer_features_from_input on req
    taxi_data,    \* the TaxiData object of the API process
    body,         \* the JSON body of the POST /predict request
    response,     \* the reply to it
    direct_out,   \* the outcome of a direct call of predict_price
    filter_in,    \* argument of a direct application of the validity filter
    filter_out,   \* the results of applying it once and once more
    impute_in,    \* argument of a direct call of clean_categorical_features
    impute_out,   \* its result
    lookup_in,    \* a call of get_weather or get_distance_and_traffic and what
                  \* the external service answered
    lookup_out,   \* what the wrapper returned
    workflow,     \* the function the page runs in its processing state
    session,      \* st.session_state: the keys that are set and their values
    page_event    \* what the last run of the page script did

vars == <<input_exists, input_file, pc, df, cur, columns, touched, output,
          fill_in, fill_out, req, bulk_out, infer_out, taxi_data, body, response, direct_out,
          filter_in, filter_out, impute_in, impute_out,
          lookup_in, lookup_out, workflow, session, page_event>>

pipeline_vars == <<input_exists, input_file, pc, df, cur, columns, touched, output>>
fill_vars == <<fill_in, fill_out>>
feature_vars == <<req, bulk_out, infer_out>>
serve_vars == <<taxi_data, body, response, direct_out>>
filter_vars == <<filter_in, filter_out>>
impute_vars == <<impute_in, impute_out>>
lookup_vars == <<lookup_in, lookup_out>>
page_vars == <<workflow, session, page_event>>

\* ----------------------------------------------------------- input domains
\* The header of the raw file (lower-cased), the RawTripRecord columns.
RAW_COLUMNS == <<"trip_price", "trip_distance_km", "trip_duration_minutes",
                 "base_fare", "per_km_rate", "per_minute_rate", "passenger_count",
                 "time_of_day", "day_of_week", "traffic_conditions", "weather">>

\* The cells of a raw pricing column: missing, or an integer -1 .. MaxVal.
PricingCells == {NaN} \cup {Num(i) : i \in -1..MaxVal}

MakeRow(pricing, other) ==
    [c \in Range(RAW_COLUMNS) |-> IF c \in PricingSet THEN pricing[c] ELSE other[c]]

\* The non-pricing cells of a row: all missing, or one of four trips.
OtherParts ==
    { [passenger_count |-> NaN, time_of_day |-> NA, day_of_week |-> NA,
       traffic_conditions |-> NA, weather |-> NA],
      [passenger_count |-> Num(2), time_of_day |-> "Morning", day_of_week |-> "Weekday",
       traffic_conditions |-> "Low", weather |-> "Rain"],
      [passenger_count |-> Num(1), time_of_day |-> "Evening", day_of_week |-> "Weekend",
       traffic_conditions |-> "High", weather |-> "Snow"],
      [passenger_count |-> Num(4), time_of_day |-> "Night", day_of_week |-> "Weekday",
       traffic_conditions |-> "Medium", weather |-> "Clear"] }

FullOther == CHOOSE o \in OtherParts : o["weather"] = "Rain"

\* Rows with any pricing cells and a fully present non-pricing part.
PricingRows == {MakeRow(p, FullOther) : p \in [PricingSet -> PricingCells]}

\* Rows with any non-pricing part whose pricing part is complete and valid
\* (3 = 1 + 1*1 + 1*1), lacks only trip_price, or lacks trip_price and
\* base_fare.
CatRows ==
    {MakeRow([c \in PricingSet |-> IF c \in missing THEN NaN
                                   ELSE IF c = "trip_price" THEN Num(3) ELSE Num(1)], o) :
        missing \in {{}, {"trip_price"}, {"trip_price", "base_fare"}}, o \in OtherParts}

\* Rows with a complete and valid pricing part and a weather or traffic
\* label that the lookup tables of the feature engineer do not have.
UnknownLabelRows ==
    {MakeRow([c \in PricingSet |-> IF c = "trip_price" THEN Num(3) ELSE Num(1)],
             [FullOther EXCEPT !["weather"] = w, !["traffic_conditions"] = t]) :
        w \in {"Rain", "Fog"}, t \in {"Low", "Jam"}} \ {
     MakeRow([c \in PricingSet |-> IF c = "trip_price" THEN Num(3) ELSE Num(1)], FullOther)}

\* The row of the end-to-end example: trip_price missing, base_fare 3.0,
\* per_km_rate 1.5, per_minute_rate 0.2, 10 km, 5 minutes, Rain, Low,
\* Morning, Weekday, 2 passengers.
ExampleRow ==
    [trip_price |-> NaN, base_fare |-> Num(3), per_km_rate |-> Rat(3, 2),
     per_minute_rate |-> Rat(1, 5), trip_distance_km |-> Num(10),
     trip_duration_minutes |-> Num(5), weather |-> "Rain", traffic_conditions |-> "Low",
     time_of_day |-> "Morning", day_of_week |-> "Weekday", passenger_count |-> Num(2)]

Tables(rows, n) == UNION {[1..k -> rows] : k \in 0..n}

\* The raw tables: one row with any pricing cells, an unknown label or the
\* example row, or up to MaxRows rows that differ in their non-pricing cells.
RawTables ==
    Tables(PricingRows \cup UnknownLabelRows \cup {ExampleRow}, 1) \cup Tables(CatRows, MaxRows)

NoFile == [exists |-> FALSE, header |-> <<>>, rows |-> <<>>]
Idle == "idle"
\* A call that has not returned, and one that returned value.
Pending == [done |-> FALSE]
Returned(value) == [done |-> TRUE, value |-> value]

\* ---------------------------------------------------------------- pipeline
InitPipeline ==
    /\ \/ input_exists = TRUE /\ input_file \in RawTables
       \/ input_exists = FALSE /\ input_file = <<>>
    /\ pc = "start"
    /\ df = <<>>
    /\ cur = <<>>
    /\ columns = <<>>
    /\ touched = {}
    /\ output = NoFile

\* pd.read_csv(input_path) and the lower-casing of the header.
Load ==
    /\ pc = "start"
    /\ input_exists
    /\ pc' = "loaded"
    /\ df' = input_file
    /\ cur' = input_file
    /\ columns' = RAW_COLUMNS
    /\ touched' = {}
    /\ UNCHANGED <<input_exists, input_file, output>>
    /\ UNCHANGED serve_vars

\* Mutant of output_on_exception: the table is saved before the statement
\* that raises.
written_before_exception(out, header, rows) ==
    [exists |-> TRUE, header |-> header, rows |-> rows]

\* The file at output_path after an exception left clean_dataset: to_csv is
\* the last statement that can run, so no exception leaves a file behind.
output_on_exception(out, header, rows) == out

\* pd.read_csv raises FileNotFoundError, which clean_dataset does not catch.
LoadFails ==
    /\ pc = "start"
    /\ ~input_exists
    /\ pc' = "failed"
    /\ output' = output_on_exception(output, columns, cur)
    /\ UNCHANGED <<input_exists, input_file, df, cur, columns, touched>>
    /\ UNCHANGED serve_vars

\* STEP 1: df_valid_core.
ValidityFilter ==
    /\ pc = "loaded"
    /\ pc' = "valid_core"
    /\ cur' = validity_filter(df)
    /\ touched' = {"trip_price", "trip_distance_km", "trip_duration_minutes"}
    /\ UNCHANGED <<input_exists, input_file, df, columns, output>>
    /\ UNCHANGED serve_vars

\* STEP 2: df_pricing_filled.
PricingRecovery ==
    /\ pc = "valid_core"
    /\ pc' = "pricing_filled"
    /\ cur' = fill_missing_pricing_components(cur)
    /\ touched' = PricingSet
    /\ UNCHANGED <<input_exists, input_file, df, columns, output>>
    /\ UNCHANGED serve_vars

\* STEP 3: df_no_leakage.
DropLeakage ==
    /\ pc = "pricing_filled"
    /\ pc' = "no_leakage"
    /\ cur' = [i \in 1..Len(cur) |-> DropFromRow(cur[i], columns_to_drop)]
    /\ columns' = DropFromHeader(columns, columns_to_drop)
    /\ touched' = columns_to_drop
    /\ UNCHANGED <<input_exists, input_file, df, output>>
    /\ UNCHANGED serve_vars

\* STEP 4: df_categoricals_filled.
Impute ==
    /\ pc = "no_leakage"
    /\ pc' = "categoricals_filled"
    /\ cur' = clean_categorical_features(cur)
    /\ touched' = Range(CATEGORICAL_COLS) \cup {"passenger_count"}
    /\ UNCHANGED <<input_exists, input_file, df, columns, output>>
    /\ UNCHANGED serve_vars

\* STEP 5: df_features.
Engineer ==
    /\ pc = "categoricals_filled"
    /\ pc' = "features"
    /\ cur' = engineer_features(cur)
    /\ columns' = AddAllToHeader(columns, ENGINEERED_COLS)
    /\ touched' = Range(CATEGORICAL_COLS) \cup {"trip_distance_km"} \cup Range(ENGINEERED_COLS)
    /\ UNCHANGED <<input_exists, input_file, df, output>>
    /\ UNCHANGED serve_vars

\* STEP 6: df_final = df_features.dropna(subset=critical_columns).
FinalCleanup ==
    /\ pc = "features"
    /\ pc' = "final_rows"
    /\ cur' = DropnaSubset(cur, critical_columns)
    /\ touched' = critical_columns
    /\ UNCHANGED <<input_exists, input_file, df, columns, output>>
    /\ UNCHANGED serve_vars

\* STEP 7: drop the original categorical columns that are in the header.
DropCategoricals ==
    /\ pc = "final_rows"
    /\ pc' = "final"
    /\ LET existing_categoricals == categorical_to_drop \cap Range(columns)
       IN  /\ cur' = [i \in 1..Len(cur) |-> DropFromRow(cur[i], existing_categoricals)]
           /\ columns' = DropFromHeader(columns, existing_categoricals)
           /\ touched' = existing_categoricals
    /\ UNCHANGED <<input_exists, input_file, df, output>>
    /\ UNCHANGED serve_vars

\* The final summary divides by len(df): retention_rate is defined for a
\* raw table with at least one row.
retention_rate_defined(table) == Len(table) # 0

\* The summary and quality checks (which only print), then df_final.to_csv.
Save ==
    /\ pc = "final"
    /\ retention_rate_defined(df)
    /\ pc' = "saved"
    /\ output' = [exists |-> TRUE, header |-> columns, rows |-> cur]
    /\ touched' = {"trip_price", "trip_distance_km", "passenger_count"} \cap Range(columns)
    /\ UNCHANGED <<input_exists, input_file, df, cur, columns>>
    /\ UNCHANGED serve_vars

\* len(df_final) / len(df) raises ZeroDivisionError for a raw table without
\* rows, before to_csv is reached.
SummaryFails ==
    /\ pc = "final"
    /\ ~retention_rate_defined(df)
    /\ pc' = "failed"
    /\ output' = output_on_exception(output, columns, cur)
    /\ UNCHANGED <<input_exists, input_file, df, cur, columns, touched>>
    /\ UNCHANGED serve_vars

\* ------------------------------------- the copy in scripts/data_cleaning.py
\* pricing_cols, the list the first branch of the loop body tests.
scripts_pricing_cols ==
    {"base_fare", "per_km_rate", "per_minute_rate", "trip_distance_km", "trip_duration_minutes"}

scripts_all_notna(row, cols) == \A col \in cols : notna(row[col])

\* The loop body of the copy: its own if/elif chain, formulas and guards.
scripts_FillRow(row) ==
    LET price == row["trip_price"]
        base == row["base_fare"]
        km == row["trip_distance_km"]
        per_km == row["per_km_rate"]
        minutes == row["trip_duration_minutes"]
        per_minute == row["per_minute_rate"]
        calculated_price_ == Add(Add(base, Mul(km, per_km)), Mul(minutes, per_minute))
        calculated_distance_ == Div(Sub(Sub(price, base), Mul(minutes, per_minute)), per_km)
        calculated_duration_ == Div(Sub(Sub(price, base), Mul(km, per_km)), per_minute)
        calculated_base_fare_ == Sub(Sub(price, Mul(km, per_km)), Mul(minutes, per_minute))
        calculated_per_km_ == Div(Sub(Sub(price, base), Mul(minutes, per_minute)), km)
        calculated_per_minute_ == Div(Sub(Sub(price, base), Mul(km, per_km)), minutes)
    IN  IF isna(price) /\ scripts_all_notna(row, scripts_pricing_cols)
        THEN SetCell(row, "trip_price", calculated_price_)
        ELSE IF isna(price)
        THEN row
        ELSE IF isna(km) /\ scripts_all_notna(row, {"trip_price", "base_fare", "per_km_rate",
                                "per_minute_rate", "trip_duration_minutes"})
        THEN IF NeZero(per_km) /\ GtZero(calculated_distance_)
             THEN SetCell(row, "trip_distance_km", calculated_distance_)
             ELSE row
        ELSE IF isna(minutes) /\ scripts_all_notna(row, {"trip_price", "base_fare", "per_km_rate",
                                "per_minute_rate", "trip_distance_km"})
        THEN IF NeZero(per_minute) /\ GtZero(calculated_duration_)
             THEN SetCell(row, "trip_duration_minutes", calculated_duration_)
             ELSE row
        ELSE IF isna(base) /\ scripts_all_notna(row, {"trip_price", "per_km_rate",
                                "per_minute_rate", "trip_distance_km", "trip_duration_minutes"})
        THEN SetCell(row, "base_fare", Max0(calculated_base_fare_))
        ELSE IF isna(per_km) /\ scripts_all_notna(row, {"trip_price", "base_fare",
                                "per_minute_rate", "trip_distance_km", "trip_duration_minutes"})
        THEN IF GtZero(km)
             THEN SetCell(row, "per_km_rate", Max0(calculated_per_km_))
             ELSE row
        ELSE IF isna(per_minute) /\ scripts_all_notna(row, {"trip_price", "base_fare",
                                "per_km_rate", "trip_distance_km", "trip_duration_minutes"})
        THEN IF GtZero(minutes)
             THEN SetCell(row, "per_minute_rate", Max0(calculated_per_minute_))
             ELSE row
        ELSE row

scripts_fill_missing_pricing_components(table) ==
    [i \in 1..Len(table) |-> scripts_FillRow(table[i])]

\* categorical_defaults of the copy, in the order the loop visits it.
scripts_categorical_defaults ==
    <<[col |-> "time_of_day", default |-> "Afternoon"],
      [col |-> "day_of_week", default |-> "Weekday"],
      [col |-> "traffic_conditions", default |-> "Medium"],
      [col |-> "weather", default |-> "Clear"]>>

\* df[col].mode(): the most frequent labels of the column, sorted; empty for
\* a column without a present value.
SeriesMode(table, col) ==
    LET labels == SortedLabels(col)
        count(v) == Cardinality({i \in 1..Len(table) : table[i][col] = v})
        top(k) == count(labels[k]) > 0 /\ \A j \in 1..Len(labels) : count(labels[j]) <= count(labels[k])
    IN  SelectSeq(labels, LAMBDA v : \E k \in 1..Len(labels) : labels[k] = v /\ top(k))

\* The loop over categorical_defaults (each column filled from its own mode,
\* or the default when mode() is empty), then the median fill.
scripts_clean_categorical_features(table) ==
    LET fill_value(k) ==
            LET col == scripts_categorical_defaults[k].col
            IN  IF SeriesMode(table, col) # <<>> THEN SeriesMode(table, col)[1]
                ELSE scripts_categorical_defaults[k].default
        fill_of(c) ==
            fill_value(CHOOSE k \in 1..Len(scripts_categorical_defaults) :
                           scripts_categorical_defaults[k].col = c)
        text_cols == {scripts_categorical_defaults[k].col :
                          k \in 1..Len(scripts_categorical_defaults)}
        median == Median(table, "passenger_count")
    IN  [i \in 1..Len(table) |->
            [c \in DOMAIN table[i] |->
                IF c \in text_cols THEN FillnaText(table[i][c], fill_of(c))
                ELSE IF c = "passenger_count" THEN FillnaNum(table[i][c], median)
                ELSE table[i][c]]]

\* The nine assignments of the copy's engineer_features, in its order, with
\* the two dict literals it maps through.
scripts_engineer_row(row) ==
    LET weather_map == [Clear |-> Num(1), Rain |-> Rat(115, 100), Snow |-> Rat(13, 10)]
        traffic_map == [Low |-> Num(1), Medium |-> Rat(11, 10), High |-> Rat(125, 100)]
        r1 == SetCell(row, "weather_impact", MapOrNaN(weather_map, row["weather"]))
        r2 == SetCell(r1, "traffic_multiplier", MapOrNaN(traffic_map, r1["traffic_conditions"]))
        r3 == SetCell(r2, "is_morning_rush", AsInt(r2["time_of_day"] = "Morning"))
        r4 == SetCell(r3, "is_evening_rush", AsInt(r3["time_of_day"] = "Evening"))
        r5 == SetCell(r4, "is_peak_hours", BitOr(r4["is_morning_rush"], r4["is_evening_rush"]))
        r6 == SetCell(r5, "is_weekend", AsInt(r5["day_of_week"] = "Weekend"))
        r7 == SetCell(r6, "high_impact_trip",
                      AsInt(r6["weather"] = "Snow" \/ r6["traffic_conditions"] = "High"))
        r8 == SetCell(r7, "condition_score", Mul(r7["weather_impact"], r7["traffic_multiplier"]))
    IN  SetCell(r8, "distance_x_conditions", Mul(r8["trip_distance_km"], r8["condition_score"]))

scripts_engineer_features(table) == [i \in 1..Len(table) |-> scripts_engineer_row(table[i])]

\* The header engineer_features leaves: the new columns in assignment order.
scripts_engineered_header(header) ==
    header \o SelectSeq(<<"weather_impact", "traffic_multiplier", "is_morning_rush",
                          "is_evening_rush", "is_peak_hours", "is_weekend", "high_impact_trip",
                          "condition_score", "distance_x_conditions">>,
                        LAMBDA c : c \notin Range(header))

\* Mutant of scripts_leakage_columns: the copy keeps trip_duration_minutes.
scripts_leakage_columns_short == {"base_fare", "per_km_rate", "per_minute_rate"}
scripts_leakage_columns ==
    {"base_fare", "per_km_rate", "per_minute_rate", "trip_duration_minutes"}
scripts_critical_columns == {"trip_distance_km", "trip_price"}
scripts_original_categoricals == {"time_of_day", "day_of_week", "traffic_conditions", "weather"}

Frame(header, rows) == [header |-> header, rows |-> rows]

\* The tables the copy's clean_dataset holds after each of its statements,
\* from the table read_csv returned.
scripts_tables(table, header) ==
    LET df_valid ==
            SelectSeq(table, LAMBDA row :
                /\ isna(row["trip_price"]) \/ GtZero(row["trip_price"])
                /\ isna(row["trip_distance_km"]) \/ GtZero(row["trip_distance_km"])
                /\ isna(row["trip_duration_minutes"]) \/ GtZero(row["trip_duration_minutes"]))
        df_pricing_filled == scripts_fill_missing_pricing_components(df_valid)
        df_no_leakage ==
            [i \in 1..Len(df_pricing_filled) |->
                DropFromRow(df_pricing_filled[i], scripts_leakage_columns)]
        header_no_leakage == DropFromHeader(header, scripts_leakage_columns)
        df_categoricals_filled == scripts_clean_categorical_features(df_no_leakage)
        df_features == scripts_engineer_features(df_categoricals_filled)
        header_features == scripts_engineered_header(header_no_leakage)
        df_final_rows ==
            SelectSeq(df_features, LAMBDA row :
                \A c \in scripts_critical_columns : notna(row[c]))
        existing_categoricals == scripts_original_categoricals \cap Range(header_features)
        df_final ==
            [i \in 1..Len(df_final_rows) |-> DropFromRow(df_final_rows[i], existing_categoricals)]
        header_final == DropFromHeader(header_features, existing_categoricals)
    IN  [loaded |-> Frame(header, table),
         valid_core |-> Frame(header, df_valid),
         pricing_filled |-> Frame(header, df_pricing_filled),
         no_leakage |-> Frame(header_no_leakage, df_no_leakage),
         categoricals_filled |-> Frame(header_no_leakage, df_categoricals_filled),
         features |-> Frame(header_features, df_features),
         final_rows |-> Frame(header_features, df_final_rows),
         final |-> Frame(header_final, df_final)]

\* The copy's clean_dataset as a whole: what it raised, what it returned and
\* the file it left at output_path.
scripts_clean_dataset(exists, file, header) ==
    IF ~exists
    THEN [raised |-> "FileNotFoundError", returned |-> Frame(<<>>, <<>>), output_file |-> NoFile]
    ELSE IF Len(file) = 0
    THEN [raised |-> "ZeroDivisionError", returned |-> Frame(<<>>, <<>>), output_file |-> NoFile]
    ELSE LET df_final == scripts_tables(file, header).final
         IN  [raised |-> "None", returned |-> df_final,
              output_file |-> [exists |-> TRUE, header |-> df_final.header,
                               rows |-> df_final.rows]]

\* The API process before TaxiData() is constructed.
NoService == [up |-> FALSE, columns |-> <<>>, model |-> FALSE, predict_raises |-> "None"]

\* The file at MODEL_PATH: missing or unreadable, a model whose predict
\* returns a price, or one whose predict raises on the row it is given.
ModelFiles == {"missing", "predicts", "ValueError", "TypeError"}

\* TaxiData.__init__: the cleaned CSV is read, and the model is loaded unless
\* joblib.load fails (the error is printed and self.model stays None).
TaxiData(header, model_file) ==
    [up |-> TRUE, columns |-> header, model |-> model_file # "missing",
     predict_raises |-> IF model_file \in {"missing", "predicts"} THEN "None" ELSE model_file]

StartService ==
    /\ pc = "saved"
    /\ ~taxi_data.up
    /\ \E file \in ModelFiles : taxi_data' = TaxiData(output.header, file)
    /\ UNCHANGED <<body, response, direct_out, pipeline_vars>>

\* One POST /predict with a body from the set bodies.
Predict(bodies) ==
    /\ taxi_data.up
    /\ ~response.done
    /\ ~direct_out.done
    /\ \E b \in bodies :
          /\ body' = b
          /\ response' = Returned(predict_fare(taxi_data, b))
    /\ UNCHANGED <<taxi_data, direct_out, pipeline_vars>>

\* One direct call of taxi_data.predict_price with arguments from bodies.
CallPredictPrice(bodies) ==
    /\ taxi_data.up
    /\ ~response.done
    /\ ~direct_out.done
    /\ \E b \in bodies :
          /\ body' = b
          /\ direct_out' = Returned(call_predict_price(taxi_data, b))
    /\ UNCHANGED <<taxi_data, response, pipeline_vars>>

\* The request the pipeline specification sends to the service it starts.
SampleBodies ==
    {[trip_distance_km |-> Rat(5, 2), passenger_count |-> 2, hour |-> 17, weekday |-> 5,
      weather |-> "Snow", traffic_conditions |-> "Low"]}

IdleFill == fill_in = Idle /\ fill_out = Pending
IdleFeatures == req = Idle /\ bulk_out = Pending /\ infer_out = Pending
IdleServe ==
    taxi_data = NoService /\ body = Idle /\ response = Pending /\ direct_out = Pending
IdleFilter == filter_in = Idle /\ filter_out = <<>>
IdleImpute == impute_in = Idle /\ impute_out = Pending
IdleLookup == lookup_in = Idle /\ lookup_out = Pending
\* No run of the page script yet.
NoRun == [state |-> "none", outcome |-> "none", raised |-> "None"]
IdlePage == workflow = Idle /\ session = <<>> /\ page_event = NoRun

Next ==
    /\ \/ Load
       \/ LoadFails
       \/ ValidityFilter
       \/ PricingRecovery
       \/ DropLeakage
       \/ Impute
       \/ Engineer
       \/ FinalCleanup
       \/ DropCategoricals
       \/ Save
       \/ SummaryFails
       \/ StartService
       \/ Predict(SampleBodies)
    /\ UNCHANGED <<fill_vars, feature_vars, filter_vars, impute_vars, lookup_vars, page_vars>>

Init ==
    /\ InitPipeline
    /\ IdleFill
    /\ IdleFeatures
    /\ IdleServe
    /\ IdleFilter
    /\ IdleImpute
    /\ IdleLookup
    /\ IdlePage

Spec == Init /\ [][Next]_vars

\* ------------------------------------- direct calls of the pricing recovery
IdlePipeline ==
    /\ input_exists = FALSE /\ input_file = <<>> /\ pc = Idle /\ df = <<>> /\ cur = <<>>
    /\ columns = <<>> /\ touched = {} /\ output = NoFile

InitFill ==
    /\ IdlePipeline
    /\ fill_in \in RawTables
    /\ fill_out = Pending
    /\ IdleFeatures
    /\ IdleServe
    /\ IdleFilter
    /\ IdleImpute
    /\ IdleLookup
    /\ IdlePage

CallFill ==
    /\ ~fill_out.done
    /\ fill_out' = Returned(fill_missing_pricing_components(fill_in))
    /\ UNCHANGED <<fill_in, pipeline_vars, feature_vars, serve_vars, filter_vars, impute_vars,
                 lookup_vars, page_vars>>

NextFill == CallFill

SpecFill == InitFill /\ [][NextFill]_vars

\* ------------------------------------ the two feature-engineering paths
WEATHERS == {"Clear", "Rain", "Snow"}
TRAFFICS == {"Low", "Medium", "High"}

\* One trip: a distance of 1 .. MaxVal km or 2.5 km, 1 .. 4 passengers, the
\* hour and weekday() of the pickup time, and the two condition labels with
\* the time_of_day / day_of_week labels its row of the raw table carries.
Requests ==
    [trip_distance_km : {Num(i) : i \in 1..MaxVal} \cup {Rat(5, 2)},
     passenger_count : {1, 4},
     hour : 0..23,
     weekday : 0..6,
     weather : WEATHERS,
     traffic_conditions : TRAFFICS,
     time_of_day : {"Morning", "Afternoon", "Evening", "Night"},
     day_of_week : {"Weekday", "Weekend"}]

\* The one-row table of the bulk path for a trip.
BulkTable(r) ==
    << [trip_distance_km |-> r.trip_distance_km,
        passenger_count |-> Num(r.passenger_count),
        time_of_day |-> r.time_of_day,
        day_of_week |-> r.day_of_week,
        traffic_conditions |-> r.traffic_conditions,
        weather |-> r.weather] >>

InitFeatures ==
    /\ IdlePipeline
    /\ IdleFill
    /\ IdleServe
    /\ IdleFilter
    /\ IdleImpute
    /\ IdleLookup
    /\ IdlePage
    /\ req \in Requests
    /\ bulk_out = Pending
    /\ infer_out = Pending

CallBulk ==
    /\ ~bulk_out.done
    /\ bulk_out' = Returned(engineer_features(BulkTable(req))[1])
    /\ UNCHANGED <<req, infer_out, pipeline_vars, fill_vars, serve_vars, filter_vars, impute_vars,
                 lookup_vars, page_vars>>

CallInfer ==
    /\ ~infer_out.done
    /\ infer_out' = Returned(engineer_features_from_input(req.trip_distance_km,
                              req.passenger_count, req.hour, req.weekday, req.weather,
                              req.traffic_conditions))
    /\ UNCHANGED <<req, bulk_out, pipeline_vars, fill_vars, serve_vars, filter_vars, impute_vars,
                 lookup_vars, page_vars>>

NextFeatures == CallBulk \/ CallInfer

SpecFeatures == InitFeatures /\ [][NextFeatures]_vars

\* -------------------------- direct calls of clean_categorical_features
\* The non-pricing parts of OtherParts and two with some cells missing.
ImputeParts ==
    OtherParts \cup
    { [passenger_count |-> NaN, time_of_day |-> "Morning", day_of_week |-> NA,
       traffic_conditions |-> "High", weather |-> NA],
      [passenger_count |-> Num(4), time_of_day |-> NA, day_of_week |-> "Weekend",
       traffic_conditions |-> NA, weather |-> "Snow"] }

\* Rows of the table STEP 4 receives: the leakage columns are gone.
ImputeRows ==
    {[c \in {"trip_price", "trip_distance_km"} \cup DOMAIN o |->
         IF c = "trip_price" THEN Num(3) ELSE IF c = "trip_distance_km" THEN Num(1) ELSE o[c]] :
       o \in ImputeParts}

InitImpute ==
    /\ IdlePipeline
    /\ IdleFill
    /\ IdleFeatures
    /\ IdleServe
    /\ IdleFilter
    /\ impute_in \in Tables(ImputeRows, MaxImputeRows)
    /\ impute_out = Pending
    /\ IdleLookup
    /\ IdlePage

CallImpute ==
    /\ ~impute_out.done
    /\ impute_out' = Returned(clean_categorical_features(impute_in))
    /\ UNCHANGED <<impute_in, pipeline_vars, fill_vars, feature_vars, serve_vars, filter_vars,
                 lookup_vars, page_vars>>

NextImpute == CallImpute

SpecImpute == InitImpute /\ [][NextImpute]_vars

\* ------------------------------- direct applications of the validity filter
\* Rows whose three core fields are missing, negative, zero or positive.
CoreCells == {NaN} \cup {Num(i) : i \in -1..1}

FilterRows ==
    {MakeRow([c \in PricingSet |->
                 CASE c = "trip_price" -> p
                   [] c = "trip_distance_km" -> km
                   [] c = "trip_duration_minutes" -> minutes
                   [] OTHER -> Num(1)], FullOther) :
        p \in CoreCells, km \in CoreCells, minutes \in CoreCells}

InitFilter ==
    /\ IdlePipeline
    /\ IdleFill
    /\ IdleFeatures
    /\ IdleServe
    /\ IdleImpute
    /\ IdleLookup
    /\ IdlePage
    /\ filter_in \in Tables(FilterRows, MaxFilterRows)
    /\ filter_out = <<>>

\* The filter applied to the raw table.
FilterOnce ==
    /\ filter_out = <<>>
    /\ filter_out' = <<validity_filter(filter_in)>>
    /\ UNCHANGED filter_in

\* The filter applied to its own output.
FilterAgain ==
    /\ Len(filter_out) = 1
    /\ filter_out' = Append(filter_out, validity_filter(filter_out[1]))
    /\ UNCHANGED filter_in

NextFilter ==
    /\ FilterOnce \/ FilterAgain
    /\ UNCHANGED <<pipeline_vars, fill_vars, feature_vars, serve_vars, impute_vars,
                 lookup_vars, page_vars>>

SpecFilter == InitFilter /\ [][NextFilter]_vars

\* ----------------------------------------------------- the /predict route
\* The bodies of POST /predict: a distance of 0, 1 or 2.5 km, 0, 2 or 5
\* passengers, a pickup time, and a weather and a traffic label that is
\* known, unknown ("Fog", "Jam") or not sent.
Bodies ==
    [trip_distance_km : {Num(0), Num(1), Rat(5, 2)},
     passenger_count : {0, 2, 5},
     hour : {8, 13, 17, 23},
     weekday : {2, 6},
     weather : {"Clear", "Snow", "Fog", Absent},
     traffic_conditions : {"Low", "High", "Jam", Absent}]

\* The header of the table clean_dataset writes for a raw table with the
\* RawTripRecord columns: STEP 3 drops, STEP 5 appends, STEP 7 drops.
CLEAN_COLUMNS ==
    DropFromHeader(
        AddAllToHeader(DropFromHeader(RAW_COLUMNS, columns_to_drop), ENGINEERED_COLS),
        categorical_to_drop)

\* The service is up on the table the pipeline wrote, with or without model.
InitPredict ==
    /\ IdlePipeline
    /\ IdleFill
    /\ IdleFeatures
    /\ \E file \in ModelFiles : taxi_data = TaxiData(CLEAN_COLUMNS, file)
    /\ body = Idle
    /\ response = Pending
    /\ direct_out = Pending
    /\ IdleFilter
    /\ IdleImpute
    /\ IdleLookup
    /\ IdlePage

NextPredict ==
    /\ Predict(Bodies) \/ CallPredictPrice(Bodies)
    /\ UNCHANGED <<fill_vars, feature_vars, filter_vars, impute_vars, lookup_vars, page_vars>>

SpecPredict == InitPredict /\ [][NextPredict]_vars

\* ------------------------------------ direct calls of the lookup wrappers
\* What the Weather API can answer.
WeatherReplies ==
    {[kind |-> "raises"], [kind |-> "no_code"]}
        \cup {[kind |-> "code", weatherCode |-> c] : c \in 0..MaxWeatherCode}

\* What the Routes API can answer: a failure, or a first route with its
\* length in metres and its "<n>s" durations with and without traffic.
RouteFailures ==
    {[kind |-> k] : k \in {"raises", "status_not_200", "no_routes", "bad_duration"}}
RouteReplies ==
    RouteFailures \cup
        [kind : {"route"}, distanceMeters : {0, 1234, 15676},
         duration : 0..MaxSeconds, staticDuration : 0..MaxSeconds]
PickupTimes == [hour : 0..23, weekday : 0..6]

InitLookup ==
    /\ IdlePipeline
    /\ IdleFill
    /\ IdleFeatures
    /\ IdleServe
    /\ IdleFilter
    /\ IdleImpute
    /\ IdleLookup
    /\ IdlePage

CallGetWeather ==
    /\ ~lookup_out.done
    /\ \E reply \in WeatherReplies :
          /\ lookup_in' = [fn |-> "get_weather", reply |-> reply]
          /\ lookup_out' = Returned(get_weather(reply))

CallGetDistanceAndTraffic ==
    /\ ~lookup_out.done
    /\ \E origin \in {"", "Storgatan 1"}, destination \in {"", "Kungsgatan 2"},
          pickup_datetime \in PickupTimes, reply \in RouteReplies :
          \* a failed call is looked at once, not once per pickup time
          /\ (origin = "" \/ destination = "" \/ reply \in RouteFailures) =>
                 pickup_datetime = [hour |-> 0, weekday |-> 0]
          /\ (origin = "" \/ destination = "") => reply = [kind |-> "no_routes"]
          /\ lookup_in' = [fn |-> "get_distance_and_traffic", origin |-> origin,
                           destination |-> destination,
                           pickup_datetime |-> pickup_datetime, reply |-> reply]
          /\ lookup_out' =
                 Returned(get_distance_and_traffic(origin, destination, pickup_datetime, reply))

NextLookup ==
    /\ CallGetWeather \/ CallGetDistanceAndTraffic
    /\ UNCHANGED <<pipeline_vars, fill_vars, feature_vars, serve_vars, filter_vars,
                   impute_vars, page_vars>>

SpecLookup == InitLookup /\ [][NextLookup]_vars

\* ------------------------------------------ the price-prediction page
\* The function the processing state runs: the page's own, and the one of
\* ui_components.py.
Workflows == {"handle_prediction_process", "render_prediction_workflow"}

\* What the distance lookup can give: an exception of the request, nothing
\* (None, 0, a failed or empty answer), or a distance with its traffic level.
DistanceLookups ==
    {[kind |-> "raises"], [kind |-> "nothing"]}
        \cup [kind : {"found"}, distance_km : {Rat(5, 2), Num(MaxTripKm)},
              traffic_conditions : {"Low", "Medium", "High"}]

\* What POST /predict can give: an exception of the request, a status other
\* than 200, a body that is not JSON, empty JSON, JSON without the expected
\* keys, or a prediction.
PredictReplies ==
    {[kind |-> k] : k \in {"raises", "not_200", "unparsable", "empty_json", "other_json"}}
        \cup [kind : {"prediction"}, estimated_price : {Num(30), Rat(75, 2)}]

InitPage ==
    /\ IdlePipeline
    /\ IdleFill
    /\ IdleFeatures
    /\ IdleServe
    /\ IdleFilter
    /\ IdleImpute
    /\ IdleLookup
    /\ workflow \in Workflows
    /\ session = <<>>
    /\ page_event = NoRun

\* A run of main in State 1: the form, and the transition on a valid submit.
ShowForm ==
    LET s0 == initialize_prediction_state(session)
    IN  /\ ~s0["processing"] /\ ~s0["prediction_complete"]
        /\ \E clicked \in BOOLEAN, pickup_address \in {"", "Storgatan 1"},
              destination_address \in {"", "Kungsgatan 2"}, passenger_count \in 1..4 :
              LET form == price_prediction_form(s0, clicked, pickup_address,
                                                destination_address, passenger_count)
                  form_submitted == form.returned # None
              IN  /\ session' = IF form_submitted
                                THEN SetCell(form.session_state, "processing", TRUE)
                                ELSE form.session_state
                  /\ page_event' = [state |-> "form",
                                    outcome |-> IF form_submitted THEN "submitted" ELSE "shown",
                                    raised |-> "None"]
        /\ UNCHANGED workflow

\* A run of main in State 2: the whole prediction workflow.
RunWorkflow ==
    LET s0 == initialize_prediction_state(session)
    IN  /\ s0["processing"]
        /\ \E lookup \in DistanceLookups, reply \in PredictReplies :
              LET ended == IF workflow = "handle_prediction_process"
                           THEN handle_prediction_process(s0, lookup, reply)
                           ELSE render_prediction_workflow(s0, lookup, reply)
              IN  /\ session' = ended.session_state
                  /\ page_event' = [state |-> "processing", outcome |-> ended.outcome,
                                    raised |-> ended.raised]
        /\ UNCHANGED workflow

\* A run of main in State 3: the results, and the reset on the button.
ShowResults ==
    LET s0 == initialize_prediction_state(session)
    IN  /\ ~s0["processing"] /\ s0["prediction_complete"]
        /\ \E clicked \in BOOLEAN :
              /\ session' = IF clicked THEN reset_prediction_state(s0) ELSE s0
              /\ page_event' = [state |-> "results",
                                outcome |-> IF clicked THEN "reset" ELSE "shown",
                                raised |-> "None"]
        /\ UNCHANGED workflow

NextPage ==
    /\ ShowForm \/ RunWorkflow \/ ShowResults
    /\ UNCHANGED <<pipeline_vars, fill_vars, feature_vars, serve_vars, filter_vars,
                   impute_vars, lookup_vars>>

SpecPage == InitPage /\ [][NextPage]_vars

\* ================================================================ claims
Finite(x) == x.d > 0
PresentPositive(x) == Finite(x) /\ x.n > 0

\* ---- C1 (Spec) --------------------------------------------------------
\* A row has an impossible value: a present value <= 0 in one of the three
\* core fields.
HasImpossibleCore(row) ==
    \E c \in {"trip_price", "trip_distance_km", "trip_duration_minutes"} :
        notna(row[c]) /\ ~(row[c].n > 0)

\* C1: the Validity Filter removes exactly the rows with a present value <= 0
\* in trip_price, trip_distance_km or trip_duration_minutes and keeps every
\* other row, in order, with its values unchanged.
C1_ValidityFilter ==
    pc = "valid_core" => cur = SelectSeq(df, LAMBDA row : ~HasImpossibleCore(row))

\* A row whose only impossible value is its trip_price has been removed.
C1_Witness ==
    /\ pc = "valid_core"
    /\ Len(df) = 1 /\ cur = <<>>
    /\ df[1]["trip_price"] = Num(-1)
    /\ PresentPositive(df[1]["trip_distance_km"])
    /\ PresentPositive(df[1]["trip_duration_minutes"])

\* ---- C2 (SpecFill) ----------------------------------------------------
\* The rows of a direct call: argument row i and result row i.
FillCalls == IF fill_out.done THEN 1..Len(fill_in) ELSE {}
MissingIn(row) == {c \in PricingSet : isna(row[c])}
FilledBy(i) == {c \in PricingSet : isna(fill_in[i][c]) /\ notna(fill_out.value[i][c])}

\* The right-hand side of the fare formula on a row.
FareFormula(row) ==
    Add(row["base_fare"],
        Add(Mul(row["trip_distance_km"], row["per_km_rate"]),
            Mul(row["trip_duration_minutes"], row["per_minute_rate"])))

\* C2 as stated: after the one missing operand of a row is filled, trip_price
\* equals the fare formula, whichever operand it was.
C2_Original ==
    \A i \in FillCalls :
        (Cardinality(MissingIn(fill_in[i])) = 1 /\ FilledBy(i) # {})
            => fill_out.value[i]["trip_price"] = FareFormula(fill_out.value[i])

\* C2 amended: after the one missing operand is filled, trip_price equals the
\* fare formula when the operand is trip_price, trip_distance_km or
\* trip_duration_minutes or the value filled is greater than 0; a base_fare,
\* per_km_rate or per_minute_rate filled with 0 leaves trip_price equal to or
\* less than the formula.
C2_RecoveryCorrectness ==
    \A i \in FillCalls :
        (Cardinality(MissingIn(fill_in[i])) = 1 /\ FilledBy(i) # {})
            => LET out == fill_out.value[i]
                   c == CHOOSE c \in FilledBy(i) : TRUE
               IN  IF c \in {"trip_price", "trip_distance_km", "trip_duration_minutes"}
                      \/ out[c].n > 0
                   THEN out["trip_price"] = FareFormula(out)
                   ELSE /\ out[c] = Num(0)
                        /\ ~Less(FareFormula(out), out["trip_price"])

\* A per_km_rate was recovered as a positive non-integer and the formula holds.
C2_Witness ==
    \E i \in FillCalls :
        /\ MissingIn(fill_in[i]) = {"per_km_rate"}
        /\ fill_out.value[i]["per_km_rate"].n > 0
        /\ fill_out.value[i]["per_km_rate"].d > 1
        /\ fill_out.value[i]["trip_price"] = FareFormula(fill_out.value[i])

\* ---- C3 (SpecFill) ----------------------------------------------------
\* C3: pricing recovery changes at most one pricing field of a row from
\* missing to a value, whatever combination of fields is missing.
C3_AtMostOneFill ==
    \A i \in FillCalls : Cardinality(FilledBy(i)) <= 1

\* One row had its single missing field filled, another row of the same
\* call, with two missing fields, had none filled.
C3_Witness ==
    \E i, j \in FillCalls :
        /\ Cardinality(FilledBy(i)) = 1
        /\ Cardinality(MissingIn(fill_in[j])) = 2 /\ FilledBy(j) = {}

\* ---- C4 (SpecFill) ----------------------------------------------------
\* C4: a row with trip_distance_km missing, per_km_rate = 0 and the other
\* pricing fields present comes back unchanged (distance still missing); a
\* row with trip_duration_minutes missing and per_minute_rate = 0 comes back
\* with the duration still missing, and unchanged when the rest is present.
C4_ZeroRateKeepsNull ==
    \A i \in FillCalls :
        LET in == fill_in[i]
            out == fill_out.value[i]
        IN  /\ (MissingIn(in) = {"trip_distance_km"} /\ in["per_km_rate"] = Num(0))
                => out = in
            /\ (isna(in["trip_duration_minutes"]) /\ in["per_minute_rate"] = Num(0))
                => isna(out["trip_duration_minutes"])
            /\ (MissingIn(in) = {"trip_duration_minutes"} /\ in["per_minute_rate"] = Num(0))
                => out = in

\* A row with a zero per_km_rate, a missing distance and a positive
\* numerator (price above base fare plus time charge) came back unchanged.
C4_Witness ==
    \E i \in FillCalls :
        /\ MissingIn(fill_in[i]) = {"trip_distance_km"}
        /\ fill_in[i]["per_km_rate"] = Num(0)
        /\ Less(FareFormula(SetCell(fill_in[i], "trip_distance_km", Num(0))),
                fill_in[i]["trip_price"])
        /\ fill_out.value[i] = fill_in[i]

\* ---- C5 (Spec) --------------------------------------------------------
\* The table clean_dataset returns and writes, once it has.
Returned_df_final == IF pc = "saved" THEN cur ELSE <<>>
WrittenRows == IF output.exists THEN output.rows ELSE <<>>

\* C5: every row of the table returned and written by clean_dataset has
\* trip_price present and greater than 0.
C5_PricePositive ==
    /\ \A i \in 1..Len(Returned_df_final) : PresentPositive(Returned_df_final[i]["trip_price"])
    /\ \A i \in 1..Len(WrittenRows) : PresentPositive(WrittenRows[i]["trip_price"])

\* ---- C6 (Spec) --------------------------------------------------------
\* A cell is missing: NaN in a numeric column (the 0/1 flag columns hold
\* integers and are never missing).
FLAG_COLUMNS == {"is_morning_rush", "is_evening_rush", "is_peak_hours", "is_weekend",
                 "high_impact_trip"}
NullCells(row) == {c \in (DOMAIN row) \ (FLAG_COLUMNS \cup categorical_to_drop) : isna(row[c])}

\* C6: no field of any row of the table returned by clean_dataset is null.
C6_NoNulls ==
    \A i \in 1..Len(Returned_df_final) : NullCells(Returned_df_final[i]) = {}

\* ---- C7 (Spec) --------------------------------------------------------
\* C7: every row of the table returned (and written) by clean_dataset has
\* trip_distance_km present and greater than 0.
C7_DistancePositive ==
    /\ \A i \in 1..Len(Returned_df_final) :
            PresentPositive(Returned_df_final[i]["trip_distance_km"])
    /\ \A i \in 1..Len(WrittenRows) : PresentPositive(WrittenRows[i]["trip_distance_km"])

\* The returned table holds a row whose distance was missing in the input and
\* was recovered by inverting the fare formula.
C7_Witness ==
    /\ pc = "saved"
    /\ Len(df) = 1 /\ isna(df[1]["trip_distance_km"])
    /\ Len(cur) = 1 /\ PresentPositive(cur[1]["trip_distance_km"])
    /\ output.rows = cur

\* ---- C8 (Spec) --------------------------------------------------------
LeakageColumns == {"base_fare", "per_km_rate", "per_minute_rate", "trip_duration_minutes"}
OriginalCategoricals == {"time_of_day", "day_of_week", "traffic_conditions", "weather"}
AfterLeakageDrop ==
    pc \in {"no_leakage", "categoricals_filled", "features", "final_rows", "final", "saved"}
AfterLeakageDropStep ==
    pc \in {"categoricals_filled", "features", "final_rows", "final", "saved"}

\* C8: the table returned and written by clean_dataset has none of the
\* leakage columns and none of the original categorical columns, and from
\* the leakage drop on no table has a leakage column and no step reads or
\* creates one.
C8_NoLeakage ==
    /\ pc = "saved" =>
          /\ Range(columns) \cap (LeakageColumns \cup OriginalCategoricals) = {}
          /\ \A i \in 1..Len(cur) :
                (DOMAIN cur[i]) \cap (LeakageColumns \cup OriginalCategoricals) = {}
    /\ output.exists =>
          /\ Range(output.header) \cap (LeakageColumns \cup OriginalCategoricals) = {}
          /\ \A i \in 1..Len(output.rows) :
                (DOMAIN output.rows[i]) \cap (LeakageColumns \cup OriginalCategoricals) = {}
    /\ AfterLeakageDrop =>
          /\ Range(columns) \cap LeakageColumns = {}
          /\ \A i \in 1..Len(cur) : (DOMAIN cur[i]) \cap LeakageColumns = {}
    /\ AfterLeakageDropStep => touched \cap LeakageColumns = {}

\* A non-empty table was written whose input rows carried all eleven columns.
C8_Witness ==
    /\ output.exists /\ Len(output.rows) > 0
    /\ \A i \in 1..Len(df) : LeakageColumns \cup OriginalCategoricals \subseteq DOMAIN df[i]
    /\ "weather_impact" \in Range(output.header)

\* ---- C9 (SpecFeatures) ------------------------------------------------
\* The lookup tables of the claim: 1.0, 1.15, 1.3 and 1.0, 1.1, 1.25.
ClaimWeatherImpact(w) ==
    IF w = "Clear" THEN Num(1) ELSE IF w = "Rain" THEN Rat(23, 20) ELSE Rat(13, 10)
ClaimTrafficMultiplier(t) ==
    IF t = "Low" THEN Num(1) ELSE IF t = "Medium" THEN Rat(11, 10) ELSE Rat(5, 4)
Iff01(flag, cond) == (flag \in {0, 1}) /\ (flag = 1 <=> cond)

\* C9: on a row with labels from the four domains, engineer_features yields
\* the table values, the rush/peak/weekend/high-impact flags and the two
\* products of the claim.
C9_EngineerFeatures ==
    bulk_out.done =>
        LET f == bulk_out.value IN
        /\ f["weather_impact"] = ClaimWeatherImpact(req.weather)
        /\ f["traffic_multiplier"] = ClaimTrafficMultiplier(req.traffic_conditions)
        /\ Iff01(f["is_morning_rush"], req.time_of_day = "Morning")
        /\ Iff01(f["is_evening_rush"], req.time_of_day = "Evening")
        /\ Iff01(f["is_peak_hours"], f["is_morning_rush"] = 1 \/ f["is_evening_rush"] = 1)
        /\ Iff01(f["is_weekend"], req.day_of_week = "Weekend")
        /\ Iff01(f["high_impact_trip"], req.weather = "Snow" \/ req.traffic_conditions = "High")
        /\ f["condition_score"] = Mul(ClaimWeatherImpact(req.weather),
                                      ClaimTrafficMultiplier(req.traffic_conditions))
        /\ f["distance_x_conditions"] = Mul(req.trip_distance_km, f["condition_score"])

\* An evening trip in rain and medium traffic was engineered: a peak-hour
\* trip that is not high-impact, with condition score 1.15 * 1.1 = 1.265.
C9_Witness ==
    /\ bulk_out.done
    /\ req.time_of_day = "Evening" /\ req.weather = "Rain"
    /\ req.traffic_conditions = "Medium"
    /\ bulk_out.value["is_peak_hours"] = 1 /\ bulk_out.value["is_morning_rush"] = 0
    /\ bulk_out.value["high_impact_trip"] = 0
    /\ bulk_out.value["condition_score"] = Rat(1265, 1000)

\* ---- C10 (SpecFeatures) -----------------------------------------------
\* The labels a row carries for a pickup hour and weekday index.
LabelOfHour(h) ==
    IF h \in 6..11 THEN "Morning" ELSE IF h \in 12..17 THEN "Afternoon"
    ELSE IF h \in 18..23 THEN "Evening" ELSE "Night"
LabelOfWeekday(w) == IF w \in {5, 6} THEN "Weekend" ELSE "Weekday"
LabelsCorrespond ==
    /\ req.time_of_day = LabelOfHour(req.hour)
    /\ req.day_of_week = LabelOfWeekday(req.weekday)
EngineeredFeatures == {"weather_impact", "traffic_multiplier", "is_morning_rush",
                       "is_evening_rush", "is_peak_hours", "is_weekend", "high_impact_trip",
                       "condition_score", "distance_x_conditions"}

\* C10: the inference path gives every engineered feature the value the
\* bulk path gives it on the row carrying the corresponding labels.
C10_PathsAgree ==
    (bulk_out.done /\ infer_out.done /\ LabelsCorrespond) =>
        \A f \in EngineeredFeatures : infer_out.value[f] = bulk_out.value[f]

\* Both paths ran on a Saturday 23:00 trip in snow: an evening-rush weekend
\* high-impact trip on both.
C10_Witness ==
    /\ bulk_out.done /\ infer_out.done /\ LabelsCorrespond
    /\ req.hour = 23 /\ req.weekday = 5 /\ req.weather = "Snow"
    /\ infer_out.value["is_evening_rush"] = 1 /\ infer_out.value["is_weekend"] = 1
    /\ bulk_out.value["is_evening_rush"] = 1 /\ bulk_out.value["is_weekend"] = 1

\* The keys of the mapping _engineer_features_from_input returns.
InferenceKeys == DOMAIN engineer_features_from_input(Num(1), 1, 0, 0, "Clear", "Low")

\* C11: the table clean_dataset writes for a raw table with the eleven
\* RawTripRecord columns has, apart from trip_price, exactly the columns
\* that are the keys of the inference mapping; a service started on that
\* table with a model that is loaded and predicts finds every non-target
\* column in the mapping and builds its one-row input in the column order
\* of the cleaned table.
C11_SchemaParity ==
    /\ pc = "saved" =>
          /\ output.exists
          /\ output.header = CLEAN_COLUMNS
          /\ Range(output.header) \ {"trip_price"} = InferenceKeys
    /\ (response.done /\ taxi_data.model /\ taxi_data.predict_raises = "None") =>
          LET out == response.value.outcome
          IN  /\ out.raised = "None"
              /\ out.columns = SelectSeq(output.header, LAMBDA col : col # "trip_price")
              /\ Len(out.values) = Len(out.columns)
              /\ \A i \in 1..Len(out.columns) : out.columns[i] \in InferenceKeys

C11_Witness ==
    /\ response.done
    /\ taxi_data.model
    /\ taxi_data.predict_raises = "None"
    /\ Len(output.rows) > 0
    /\ Len(response.value.outcome.columns) = 11

\* A raw row that passes the validity filter and carries a weather or a
\* traffic label outside the lookup tables; imputation leaves present
\* labels alone, so the row reaches engineer_features with that label.
UnknownCategory(row) ==
    \/ row["weather"] \notin WEATHERS \cup {NA}
    \/ row["traffic_conditions"] \notin TRAFFICS \cup {NA}

UnknownReachesEngineer ==
    \E i \in 1..Len(df) : ~HasImpossibleCore(df[i]) /\ UnknownCategory(df[i])

\* C12: when a row reaches engineer_features with a weather label outside
\* {Clear, Rain, Snow} or a traffic label outside {Low, Medium, High}, the
\* run of clean_dataset fails: the feature step is never completed, no
\* feature of the row is null and no cleaned table is written.
C12_UnknownCategoryFails ==
    UnknownReachesEngineer =>
        /\ pc \notin {"features", "final_rows", "final", "saved"}
        /\ ~output.exists

\* The other fields of a request body are valid.
OtherFieldsValid(b) ==
    /\ PresentPositive(b.trip_distance_km)
    /\ b.passenger_count \in 1..4

\* The body carries a weather or a traffic label outside the allowed sets.
UnknownLabelSent(b) ==
    \/ b.weather \notin WEATHERS \cup {Absent}
    \/ b.traffic_conditions \notin TRAFFICS \cup {Absent}

\* C13: a /predict request with a weather label outside {Clear, Rain, Snow}
\* or a traffic label outside {Low, Medium, High}, all other fields valid
\* and the model loaded, is answered with a 4xx status; a request that is
\* valid but meets a service without model is answered with a 5xx status.
C13_CallerFaultIs4xx ==
    response.done =>
        /\ (OtherFieldsValid(body) /\ taxi_data.model /\ UnknownLabelSent(body)) =>
              response.value.http \in 400..499
        /\ (OtherFieldsValid(body) /\ ~taxi_data.model /\ ~UnknownLabelSent(body)) =>
              response.value.http \in 500..599

\* The raw row of the worked example.
C14_Row ==
    [trip_price |-> NaN, base_fare |-> Num(3), per_km_rate |-> Rat(15, 10),
     per_minute_rate |-> Rat(2, 10), trip_distance_km |-> Num(10),
     trip_duration_minutes |-> Num(5), weather |-> "Rain", traffic_conditions |-> "Low",
     time_of_day |-> "Morning", day_of_week |-> "Weekday", passenger_count |-> Num(2)]

\* The row of the cleaned table the worked example names.
C14_Expected ==
    [trip_price |-> Num(19), trip_distance_km |-> Num(10), passenger_count |-> Num(2),
     weather_impact |-> Rat(115, 100), traffic_multiplier |-> Num(1),
     condition_score |-> Rat(115, 100), distance_x_conditions |-> Rat(115, 10),
     is_morning_rush |-> 1, is_evening_rush |-> 0, is_peak_hours |-> 1,
     is_weekend |-> 0, high_impact_trip |-> 0]

\* C14: the pipeline run on the single row {trip_price null, base_fare 3.0,
\* per_km_rate 1.5, per_minute_rate 0.2, 10 km, 5 minutes, Rain, Low,
\* Morning, Weekday, 2 passengers} keeps the row at every step, completes,
\* and writes exactly one row: trip_price 19.0, weather_impact 1.15,
\* traffic_multiplier 1.0, condition_score 1.15, distance_x_conditions
\* 11.5, is_morning_rush 1, is_evening_rush 0, is_peak_hours 1,
\* is_weekend 0, high_impact_trip 0, passenger_count 2.
C14_WorkedExample ==
    df = <<C14_Row>> =>
        /\ pc # "failed"
        /\ Len(cur) = 1
        /\ pc \notin {"loaded", "valid_core"} => cur[1]["trip_price"] = Num(19)
        /\ pc = "saved" => output.exists /\ output.rows = <<C14_Expected>>

C14_Witness == df = <<C14_Row>> /\ pc = "saved" /\ output.rows = <<C14_Expected>>

\* C15: the validity filter applied to its own output changes nothing, and
\* applied to a table without a present value <= 0 in trip_price,
\* trip_distance_km or trip_duration_minutes it returns the table unchanged.
C15_FilterIdempotent ==
    /\ Len(filter_out) = 2 => filter_out[2] = filter_out[1]
    /\ (Len(filter_out) >= 1 /\ \A i \in 1..Len(filter_in) : ~HasImpossibleCore(filter_in[i])) =>
          filter_out[1] = filter_in

\* The filter removed a row, kept a row with a missing core field, and was
\* then applied a second time.
C15_Witness ==
    /\ Len(filter_out) = 2
    /\ Len(filter_out[1]) < Len(filter_in)
    /\ \E i \in 1..Len(filter_out[2]) : isna(filter_out[2][i]["trip_price"])

\* The fixed default of each text column.
ClaimDefault(col) ==
    CASE col = "time_of_day" -> "Afternoon"
      [] col = "day_of_week" -> "Weekday"
      [] col = "traffic_conditions" -> "Medium"
      [] col = "weather" -> "Clear"

TextColumns == {"time_of_day", "day_of_week", "traffic_conditions", "weather"}

Occurrences(table, col, v) == Cardinality({i \in 1..Len(table) : table[i][col] = v})

\* v is a most frequent present value of the column, or the default when
\* the column has no present value.
MostFrequentOrDefault(table, col, v) ==
    IF \A i \in 1..Len(table) : table[i][col] = NA
    THEN v = ClaimDefault(col)
    ELSE /\ v # NA
         /\ Occurrences(table, col, v) >= 1
         /\ \A i \in 1..Len(table) :
               table[i][col] # NA =>
                   Occurrences(table, col, table[i][col]) <= Occurrences(table, col, v)

\* m is the median of the present values of the column: at most half of
\* them lie below it and at most half above it, and it is the midpoint of
\* the nearest present values on either side.
IsMedianOf(table, col, m) ==
    LET present == {i \in 1..Len(table) : notna(table[i][col])}
        k == Cardinality(present)
    IN  /\ 2 * Cardinality({i \in present : Less(table[i][col], m)}) <= k
        /\ 2 * Cardinality({i \in present : Less(m, table[i][col])}) <= k
        /\ \E a, b \in present :
              /\ ~Less(m, table[a][col])
              /\ ~Less(table[b][col], m)
              /\ \A i \in present :
                    /\ ~Less(m, table[i][col]) => ~Less(table[a][col], table[i][col])
                    /\ ~Less(table[i][col], m) => ~Less(table[i][col], table[b][col])
              /\ m = Div(Add(table[a][col], table[b][col]), Num(2))

\* C16: clean_categorical_features keeps the number of rows and every
\* present value; in each text column it puts one value, a most frequent
\* present value of that column over the whole table or the fixed default
\* (Afternoon, Weekday, Medium, Clear) when the column has none, into every
\* missing cell; and it puts the median of the present passenger_count
\* values into every missing passenger_count (which stays missing when no
\* passenger_count is present).
C16_Imputation ==
    impute_out.done =>
        LET in == impute_in
            out == impute_out.value
        IN  /\ Len(out) = Len(in)
            /\ \A i \in 1..Len(in) :
                  /\ DOMAIN out[i] = DOMAIN in[i]
                  /\ \A c \in DOMAIN in[i] \ (TextColumns \cup {"passenger_count"}) :
                        out[i][c] = in[i][c]
            /\ \A c \in TextColumns :
                  \E v \in Range(SortedLabels(c)) :
                      /\ MostFrequentOrDefault(in, c, v)
                      /\ \A i \in 1..Len(in) :
                            out[i][c] = IF in[i][c] = NA THEN v ELSE in[i][c]
            /\ \A i \in 1..Len(in) :
                  IF notna(in[i]["passenger_count"])
                  THEN out[i]["passenger_count"] = in[i]["passenger_count"]
                  ELSE IF \E j \in 1..Len(in) : notna(in[j]["passenger_count"])
                  THEN IsMedianOf(in, "passenger_count", out[i]["passenger_count"])
                  ELSE isna(out[i]["passenger_count"])

\* A missing traffic cell was filled with Low, which is more frequent than
\* High, and a missing passenger_count with the median 2 of 2, 2 and 1.
C16_Witness ==
    /\ impute_out.done
    /\ Len(impute_in) = 4
    /\ Occurrences(impute_in, "traffic_conditions", "High") = 1
    /\ \E i \in 1..4 :
          /\ impute_in[i]["traffic_conditions"] = NA
          /\ impute_out.value[i]["traffic_conditions"] = "Low"
    /\ \E i \in 1..4 :
          /\ isna(impute_in[i]["passenger_count"])
          /\ impute_out.value[i]["passenger_count"] = Num(2)
    /\ \E i \in 1..4 : impute_in[i]["passenger_count"] = Num(1)

\* The five pricing-formula operands, and those of them a row lacks.
Operands ==
    {"base_fare", "per_km_rate", "per_minute_rate", "trip_distance_km", "trip_duration_minutes"}

MissingOperands(row) == {c \in Operands : isna(row[c])}

\* The rows of the raw table that pass the validity filter, in order.
PassingRows == SelectSeq(df, LAMBDA row : ~HasImpossibleCore(row))

\* Pricing recovery left every row with two or more missing fields among
\* fields as it was.
NoneRecovered(fields) ==
    pc = "pricing_filled" =>
        /\ Len(cur) = Len(PassingRows)
        /\ \A i \in 1..Len(cur) :
              Cardinality({c \in fields : isna(PassingRows[i][c])}) >= 2 =>
                  cur[i] = PassingRows[i]

\* C17 as stated: a row that passes the validity filter with two or more
\* of its five pricing operands missing has none of them recovered and is
\* not in the final table (so the final table has at most as many rows as
\* the raw table has passing rows with fewer than two operands missing),
\* and the run does not raise.
C17_Original ==
    /\ NoneRecovered(Operands)
    /\ pc \in {"final_rows", "final", "saved"} =>
          Len(cur) <= Cardinality({i \in 1..Len(PassingRows) :
                                     Cardinality(MissingOperands(PassingRows[i])) < 2})
    /\ Len(df) > 0 => pc # "failed"

\* The trip_price and trip_distance_km cells of a table, row by row.
PriceAndDistance(table) ==
    [i \in 1..Len(table) |-> <<table[i]["trip_price"], table[i]["trip_distance_km"]>>]

\* C17, amended: a row that passes the validity filter with two or more of
\* its six pricing fields missing has none of them recovered; it is absent
\* from the final table exactly when trip_price or trip_distance_km is among
\* the missing ones, and is kept when all its missing fields are among the
\* four dropped columns; no row of the final table lacks trip_price or
\* trip_distance_km; and a run on a table with rows does not raise.
C17_UnrecoverableDropped ==
    /\ NoneRecovered(PricingSet)
    /\ pc \in {"final_rows", "final", "saved"} =>
          /\ \A i \in 1..Len(cur) :
                notna(cur[i]["trip_price"]) /\ notna(cur[i]["trip_distance_km"])
          /\ (\A i \in 1..Len(df) : Cardinality(MissingIn(df[i])) >= 2) =>
                PriceAndDistance(cur) =
                    PriceAndDistance(SelectSeq(PassingRows, LAMBDA row :
                        notna(row["trip_price"]) /\ notna(row["trip_distance_km"])))
    /\ Len(df) > 0 => pc # "failed"

\* A row lacking base_fare and per_km_rate went through the run and was
\* written.
C17_Witness ==
    /\ pc = "saved"
    /\ Len(df) = 1
    /\ MissingIn(df[1]) = {"base_fare", "per_km_rate"}
    /\ Len(output.rows) = 1

\* C18: a /predict request that omits weather or traffic_conditions, sent
\* to a service with a model that is loaded and predicts, is rejected as a
\* caller input error: it is answered with a 4xx status, no row is built
\* for the model, and no category the body did not carry is used in its
\* place.
C18_AbsentCategoryRejected ==
    (/\ response.done
     /\ taxi_data.model
     /\ taxi_data.predict_raises = "None"
     /\ body.weather = Absent \/ body.traffic_conditions = Absent) =>
        /\ response.value.http \in 400..499
        /\ response.value.outcome.raised # "None"
        /\ response.value.outcome.weather_used \notin WEATHERS \ {body.weather}
        /\ response.value.outcome.traffic_used \notin TRAFFICS \ {body.traffic_conditions}

\* The output file exists only once the run has completed every step, and
\* then holds the final table; a failed run has written nothing.
WrittenOnlyAtEnd ==
    /\ output.exists => pc = "saved" /\ output.rows = cur /\ output.header = columns
    /\ pc = "saved" => output.exists
    /\ pc = "failed" => output = NoFile

\* A step that changes the output file is the first write, and it ends the run.
SingleWrite == output' # output => ~output.exists /\ pc = "final" /\ pc' = "saved"

\* C19: clean_dataset writes the output file at most once, as its last
\* step after every cleaning step has completed; when reading the input
\* file fails or a step before the write raises, the run fails as a whole
\* and nothing has been written to output_path.
C19_WriteOnceAtEnd == []WrittenOnlyAtEnd /\ [][SingleWrite]_vars

\* The input file was read and the run raised after its cleaning steps.
C19_Witness == pc = "failed" /\ input_exists /\ columns # <<>> /\ output = NoFile

\* A row lacks trip_price and nothing else / and something else.
OnlyPriceMissing(row) == MissingIn(row) = {"trip_price"}
PriceAndMoreMissing(row) == isna(row["trip_price"]) /\ MissingIn(row) # {"trip_price"}

\* C20: fill_missing_pricing_components gives a row with trip_price missing
\* and the five operands present trip_price = base_fare + trip_distance_km
\* * per_km_rate + trip_duration_minutes * per_minute_rate and leaves the
\* operands alone; a row with trip_price and at least one operand missing
\* comes back with all six pricing fields as they were.
C20_PriceCaseAndSkip ==
    \A i \in FillCalls :
        LET in == fill_in[i]
            out == fill_out.value[i]
        IN  /\ OnlyPriceMissing(in) =>
                  /\ out["trip_price"] = FareFormula(in)
                  /\ notna(out["trip_price"])
                  /\ \A c \in PricingSet \ {"trip_price"} : out[c] = in[c]
            /\ PriceAndMoreMissing(in) =>
                  \A c \in PricingSet : out[c] = in[c]

\* One call met a row of either kind.
C20_Witness ==
    /\ fill_out.done
    /\ \E i \in 1..Len(fill_in) : OnlyPriceMissing(fill_in[i])
    /\ \E i \in 1..Len(fill_in) :
          PriceAndMoreMissing(fill_in[i]) /\ notna(fill_in[i]["per_km_rate"])

\* The inverted fare formula for the distance and for the duration of a row.
InvertedDistance(row) ==
    Div(Sub(Sub(row["trip_price"], row["base_fare"]),
            Mul(row["trip_duration_minutes"], row["per_minute_rate"])),
        row["per_km_rate"])

InvertedDuration(row) ==
    Div(Sub(Sub(row["trip_price"], row["base_fare"]),
            Mul(row["trip_distance_km"], row["per_km_rate"])),
        row["per_minute_rate"])

\* The row came back with value in the cell col and every other cell as it was.
OnlyCellSet(in, out, col, value) ==
    /\ DOMAIN out = DOMAIN in
    /\ out[col] = value
    /\ \A c \in DOMAIN in \ {col} : out[c] = in[c]

\* C21: when trip_distance_km (trip_duration_minutes) is the only missing
\* pricing field and per_km_rate (per_minute_rate) is not zero, the call
\* stores the inverted-formula result if it is > 0 and otherwise returns
\* the row as it was, no field filled; every distance or duration the call
\* wrote is > 0.
C21_InverseAcceptedOnlyPositive ==
    \A i \in FillCalls :
        LET in == fill_in[i]
            out == fill_out.value[i]
        IN  /\ (MissingIn(in) = {"trip_distance_km"} /\ in["per_km_rate"].n # 0) =>
                  IF PresentPositive(InvertedDistance(in))
                  THEN OnlyCellSet(in, out, "trip_distance_km", InvertedDistance(in))
                  ELSE out = in
            /\ (MissingIn(in) = {"trip_duration_minutes"} /\ in["per_minute_rate"].n # 0) =>
                  IF PresentPositive(InvertedDuration(in))
                  THEN OnlyCellSet(in, out, "trip_duration_minutes", InvertedDuration(in))
                  ELSE out = in
            /\ \A c \in {"trip_distance_km", "trip_duration_minutes"} :
                  (isna(in[c]) /\ notna(out[c])) => PresentPositive(out[c])

\* The inverted formula gave 0 for the missing duration and the row came
\* back unchanged.
C21_Witness ==
    /\ fill_out.done
    /\ \E i \in 1..Len(fill_in) :
          /\ MissingIn(fill_in[i]) = {"trip_duration_minutes"}
          /\ fill_in[i]["per_minute_rate"].n # 0
          /\ InvertedDuration(fill_in[i]) = Num(0)
          /\ fill_out.value[i] = fill_in[i]

\* max(0, x) of a present value.
ClampAtZero(x) == IF PresentPositive(x) THEN x ELSE Num(0)

\* The fare formula solved for base_fare, per_km_rate and per_minute_rate.
SolvedBaseFare(row) ==
    Sub(Sub(row["trip_price"], Mul(row["trip_distance_km"], row["per_km_rate"])),
        Mul(row["trip_duration_minutes"], row["per_minute_rate"]))

SolvedPerKm(row) ==
    Div(Sub(Sub(row["trip_price"], row["base_fare"]),
            Mul(row["trip_duration_minutes"], row["per_minute_rate"])),
        row["trip_distance_km"])

SolvedPerMinute(row) ==
    Div(Sub(Sub(row["trip_price"], row["base_fare"]),
            Mul(row["trip_distance_km"], row["per_km_rate"])),
        row["trip_duration_minutes"])

\* C22: every base_fare, per_km_rate or per_minute_rate the call writes is
\* >= 0.  A row lacking only base_fare always gets max(0, price - distance
\* * per_km_rate - duration * per_minute_rate); a row lacking only
\* per_km_rate gets max(0, (price - base_fare - duration * per_minute_rate)
\* / distance) when distance > 0 and is returned unchanged otherwise; a row
\* lacking only per_minute_rate likewise with duration.
C22_RatesClamped ==
    \A i \in FillCalls :
        LET in == fill_in[i]
            out == fill_out.value[i]
        IN  /\ \A c \in {"base_fare", "per_km_rate", "per_minute_rate"} :
                  (isna(in[c]) /\ notna(out[c])) => Finite(out[c]) /\ out[c].n >= 0
            /\ MissingIn(in) = {"base_fare"} =>
                  OnlyCellSet(in, out, "base_fare", ClampAtZero(SolvedBaseFare(in)))
            /\ MissingIn(in) = {"per_km_rate"} =>
                  IF PresentPositive(in["trip_distance_km"])
                  THEN OnlyCellSet(in, out, "per_km_rate", ClampAtZero(SolvedPerKm(in)))
                  ELSE out = in
            /\ MissingIn(in) = {"per_minute_rate"} =>
                  IF PresentPositive(in["trip_duration_minutes"])
                  THEN OnlyCellSet(in, out, "per_minute_rate", ClampAtZero(SolvedPerMinute(in)))
                  ELSE out = in

\* A negative solved per_km_rate was stored as 0.
C22_Witness ==
    /\ fill_out.done
    /\ \E i \in 1..Len(fill_in) :
          /\ MissingIn(fill_in[i]) = {"per_km_rate"}
          /\ SolvedPerKm(fill_in[i]).n < 0
          /\ fill_out.value[i]["per_km_rate"] = Num(0)

\* The cells of a row that differ between the argument and the result.
ChangedCells(in, out) == {c \in DOMAIN in : out[c] # in[c]}

\* C23: fill_missing_pricing_components returns as many rows as it got, in
\* the same order and with the same columns; no cell that was present is
\* changed (a present trip_price is never recomputed, a non-pricing cell
\* never touched), and a row changes in at most one cell, a pricing field
\* going from missing to a value.
C23_FillFrame ==
    fill_out.done =>
        /\ Len(fill_out.value) = Len(fill_in)
        /\ \A i \in 1..Len(fill_in) :
              LET in == fill_in[i]
                  out == fill_out.value[i]
              IN  /\ DOMAIN out = DOMAIN in
                  /\ \A c \in DOMAIN in \ PricingSet : out[c] = in[c]
                  /\ \A c \in PricingSet : notna(in[c]) => out[c] = in[c]
                  /\ Cardinality(ChangedCells(in, out)) <= 1
                  /\ \A c \in ChangedCells(in, out) :
                        c \in PricingSet /\ isna(in[c]) /\ notna(out[c])

\* A row with every pricing field present and a trip_price other than the
\* formula's value came back as it was.
C23_Witness ==
    /\ fill_out.done
    /\ \E i \in 1..Len(fill_in) :
          /\ MissingIn(fill_in[i]) = {}
          /\ fill_in[i]["trip_price"] # FareFormula(fill_in[i])
          /\ fill_out.value[i] = fill_in[i]

\* The steps of a run in the order the claim gives them, by what each one
\* does to the table: the state a step leaves and the test of its effect.
StepEffect(step) ==
    CASE step = "valid_core" ->
           /\ cur' = SelectSeq(cur, LAMBDA row : ~HasImpossibleCore(row))
           /\ columns' = columns
      [] step = "pricing_filled" ->
           /\ Len(cur') = Len(cur)
           /\ columns' = columns
           /\ \A i \in 1..Len(cur) :
                 /\ \A c \in PricingSet : notna(cur[i][c]) => cur'[i][c] = cur[i][c]
                 /\ \A c \in DOMAIN cur[i] \ PricingSet : cur'[i][c] = cur[i][c]
      [] step = "no_leakage" ->
           /\ Len(cur') = Len(cur)
           /\ Range(columns') = Range(columns) \ LeakageColumns
      [] step = "categoricals_filled" ->
           /\ Len(cur') = Len(cur)
           /\ columns' = columns
           /\ \A i \in 1..Len(cur) :
                 /\ cur'[i]["trip_price"] = cur[i]["trip_price"]
                 /\ \A c \in TextColumns : cur'[i][c] # NA
      [] step = "features" ->
           /\ Len(cur') = Len(cur)
           /\ Range(columns') = Range(columns) \cup Range(ENGINEERED_COLS)
      [] step = "final_rows" ->
           /\ cur' = SelectSeq(cur, LAMBDA row :
                         notna(row["trip_price"]) /\ notna(row["trip_distance_km"]))
           /\ columns' = columns
      [] step = "final" ->
           /\ Len(cur') = Len(cur)
           /\ Range(columns') = Range(columns) \ TextColumns
      [] step = "saved" ->
           /\ cur' = cur
           /\ output' = [exists |-> TRUE, header |-> columns, rows |-> cur]
      [] OTHER -> TRUE

StepOrder ==
    <<"loaded", "valid_core", "pricing_filled", "no_leakage", "categoricals_filled",
      "features", "final_rows", "final", "saved">>

\* One step of a run that does not raise: the next step of StepOrder with
\* its effect; rows are lost only by the validity filter and the final drop.
OrderedStep ==
    (pc' # pc /\ pc' \notin {"loaded", "failed"}) =>
        /\ \E k \in 1..(Len(StepOrder) - 1) : pc = StepOrder[k] /\ pc' = StepOrder[k + 1]
        /\ StepEffect(pc')
        /\ Len(cur') <= Len(cur)
        /\ Len(cur') < Len(cur) => pc' \in {"valid_core", "final_rows"}

\* C24: clean_dataset runs validity filter, pricing recovery, leakage-column
\* drop, categorical imputation, feature engineering, final null-row drop,
\* categorical-column drop and write in this order; rows are removed only
\* by the validity filter and by the final drop of rows null in
\* trip_distance_km or trip_price; imputation works on a table that still
\* holds the rows the final drop removes.
C24_StepOrder == [][OrderedStep]_vars

\* Imputation filled a missing label in a table that holds a row without
\* trip_price, which the final drop then removed.
C24_Witness ==
    /\ pc = "saved"
    /\ Len(output.rows) < Len(PassingRows)
    /\ \E i \in 1..Len(PassingRows) : isna(PassingRows[i]["trip_price"]) /\ isna(PassingRows[i]["base_fare"])
    /\ \E i \in 1..Len(PassingRows) : PassingRows[i]["weather"] = NA /\ notna(PassingRows[i]["trip_price"])

\* The bins of the hours of a day the claim names.
HourBins ==
    [Morning |-> 6..11, Afternoon |-> 12..17, Evening |-> 18..23, Night |-> 0..5]

\* C25: in the inference path every hour 0..23 falls in exactly one bin
\* (6..11 Morning, 12..17 Afternoon, 18..23 Evening, 0..5 Night), which is
\* the one the binning gives it; is_morning_rush = 1 iff 6 <= hour < 12,
\* is_evening_rush = 1 iff 18 <= hour <= 23, the two are never both 1,
\* is_peak_hours is their sum, and is_weekend = 1 iff the weekday index is
\* 5 or 6.
C25_HourBins ==
    infer_out.done =>
        LET f == infer_out.value
        IN  /\ Cardinality({b \in DOMAIN HourBins : req.hour \in HourBins[b]}) = 1
            /\ req.hour \in HourBins[TimeOfDay(req.hour)]
            /\ f["is_morning_rush"] = (IF 6 <= req.hour /\ req.hour < 12 THEN 1 ELSE 0)
            /\ f["is_evening_rush"] = (IF 18 <= req.hour /\ req.hour <= 23 THEN 1 ELSE 0)
            /\ ~(f["is_morning_rush"] = 1 /\ f["is_evening_rush"] = 1)
            /\ f["is_peak_hours"] = f["is_morning_rush"] + f["is_evening_rush"]
            /\ f["is_weekend"] = (IF req.weekday \in {5, 6} THEN 1 ELSE 0)

\* The inference path ran for a pickup at noon on a Saturday.
C25_Witness ==
    /\ infer_out.done
    /\ req.hour = 12
    /\ req.weekday = 5
    /\ infer_out.value["is_peak_hours"] = 0
    /\ infer_out.value["is_weekend"] = 1

WeekdayRush(pickup_datetime) ==
    /\ pickup_datetime.weekday < 5
    /\ pickup_datetime.hour \in (6..9) \cup (16..19)

RouteAnswered ==
    /\ lookup_out.done
    /\ lookup_in.fn = "get_distance_and_traffic"
    /\ lookup_out.value # None

\* C27: get_weather returns a key of WEATHER_IMPACT for every weather code
\* and Clear when the request raises; get_distance_and_traffic returns None
\* or a result whose traffic_conditions is a key of TRAFFIC_MULTIPLIER, which
\* is Medium when staticDuration is 0, is Low exactly when
\* duration / staticDuration < 1.05 outside the weekday rush hours, and is
\* never Low for a weekday pickup with hour in 6..9 or 16..19.
C27_LookupDomains ==
    /\ (lookup_out.done /\ lookup_in.fn = "get_weather") =>
          /\ lookup_out.value \in DOMAIN WEATHER_IMPACT
          /\ lookup_in.reply.kind = "raises" => lookup_out.value = "Clear"
    /\ RouteAnswered =>
          LET traffic == lookup_out.value.traffic_conditions
              duration == lookup_in.reply.duration
              static == lookup_in.reply.staticDuration
              rush == WeekdayRush(lookup_in.pickup_datetime)
          IN  /\ traffic \in DOMAIN TRAFFIC_MULTIPLIER
              /\ static = 0 => traffic = "Medium"
              /\ static > 0 => (traffic = "Low" <=> (20 * duration < 21 * static /\ ~rush))
              /\ rush => traffic # "Low"

\* A Monday 08:00 pickup whose route takes 20 s with and without traffic:
\* the ratio says Low and the call returns Medium.
C27_Witness ==
    /\ RouteAnswered
    /\ lookup_in.pickup_datetime = [hour |-> 8, weekday |-> 0]
    /\ lookup_in.reply.duration = 20
    /\ lookup_in.reply.staticDuration = 20
    /\ lookup_out.value.traffic_conditions = "Medium"

\* ------------------------------------------------------------------- C28
ScriptsRun == scripts_clean_dataset(input_exists, input_file, RAW_COLUMNS)

\* C28: the copy of the cleaning pipeline in scripts/data_cleaning.py and the
\* one in backend/data_cleaning.py agree on every raw table: after each step
\* of clean_dataset (filter, fill_missing_pricing_components, leakage drop,
\* clean_categorical_features, engineer_features, final drop, categorical
\* drop) both hold the same rows, columns, column order and values, both
\* return and write the same table, and both fail on the same inputs; the
\* three functions also agree when called directly on a table.
C28_CopiesEquivalent ==
    /\ pc \in DOMAIN scripts_tables(df, RAW_COLUMNS) =>
          /\ cur = scripts_tables(df, RAW_COLUMNS)[pc].rows
          /\ columns = scripts_tables(df, RAW_COLUMNS)[pc].header
    /\ pc = "saved" =>
          /\ ScriptsRun.raised = "None"
          /\ cur = ScriptsRun.returned.rows
          /\ columns = ScriptsRun.returned.header
          /\ output = ScriptsRun.output_file
    /\ pc = "failed" =>
          /\ ScriptsRun.raised # "None"
          /\ output = ScriptsRun.output_file
    /\ fill_out.done => fill_out.value = scripts_fill_missing_pricing_components(fill_in)
    /\ impute_out.done => impute_out.value = scripts_clean_categorical_features(impute_in)
    /\ bulk_out.done => bulk_out.value = scripts_engineer_features(BulkTable(req))[1]

\* A run in which the pricing recovery filled a cell, the final cleanup
\* dropped a row and the rest was written.
C28_Witness ==
    /\ pc = "saved"
    /\ Len(cur) > 0
    /\ Len(cur) < Len(validity_filter(df))
    /\ fill_missing_pricing_components(validity_filter(df)) # validity_filter(df)
    /\ output = ScriptsRun.output_file

\* ------------------------------------------------------------------- C29
Flag(key) == Has(session, key) /\ session[key] = TRUE
TripStored == Has(session, "trip_data") /\ session["trip_data"] # None

\* C29: in the page's session machine processing and prediction_complete
\* are never both True, prediction_complete = True implies that trip_data is
\* set, processing = True implies that form_data is set, and a click on
\* "New Trip Prediction" leaves processing = False, prediction_complete =
\* False, trip_data = None and no form_data.
C29_SessionMachine ==
    /\ ~(Flag("processing") /\ Flag("prediction_complete"))
    /\ Flag("prediction_complete") => TripStored
    /\ Flag("processing") => Has(session, "form_data")
    /\ page_event.outcome = "reset" =>
          /\ session["processing"] = FALSE
          /\ session["prediction_complete"] = FALSE
          /\ session["trip_data"] = None
          /\ ~Has(session, "form_data")

\* The button was clicked on the results of a completed prediction.
C29_Witness ==
    /\ page_event.state = "results"
    /\ page_event.outcome = "reset"
    /\ ~Flag("processing")
    /\ ~TripStored

\* ------------------------------------------------------------------- C30
\* C30: every run of the prediction workflow ends with processing = False:
\* with prediction_complete = True and trip_data stored on success, and with
\* prediction_complete = False on every failure, a raising call included.
C30_WorkflowLeavesProcessing ==
    page_event.state = "processing" =>
        /\ ~Flag("processing")
        /\ page_event.outcome = "success" => (Flag("prediction_complete") /\ TripStored)
        /\ page_event.outcome # "success" => ~Flag("prediction_complete")

====
